---- MODULE Spec2Model ----
(***************************************************************************)
(* Address conversion codec of the collateral scripts                      *)
(* (scripts/address_conversion.py) and the scripts that call it.           *)
(*                                                                         *)
(* Byte strings are sequences of 0..255; text is a sequence of one-        *)
(* character strings.  A call's outcome is a record: a returned value, a   *)
(* returned None, or a raised exception with its type and message.         *)
(***************************************************************************)
EXTENDS Integers, Sequences, FiniteSets, TLC

(* ------------------------------------------------------------------ *)
(* Outcomes of a call                                                  *)
(* ------------------------------------------------------------------ *)

Returned(v) == [raised |-> FALSE, none |-> FALSE, val |-> v, exc |-> "", msg |-> <<>>]

ReturnedNone == [raised |-> FALSE, none |-> TRUE, val |-> <<>>, exc |-> "", msg |-> <<>>]

Raised(e, m) == [raised |-> TRUE, none |-> FALSE, val |-> <<>>, exc |-> e, msg |-> m]

NotCalled == [raised |-> FALSE, none |-> FALSE, val |-> <<>>, exc |-> "", msg |-> <<"not called">>]

IsValue(r) == ~r.raised /\ ~r.none /\ r.msg = <<>>

(* ------------------------------------------------------------------ *)
(* Byte and text helpers                                               *)
(* ------------------------------------------------------------------ *)

\* A loop: Op(acc, lo), then Op(that, lo + 1), ... up to hi.  The range is halved
\* and the left half is evaluated before the right one starts, which keeps the
\* evaluation shallow.
RECURSIVE FoldRange(_, _, _, _)
FoldRange(Op(_, _), acc, lo, hi) ==
    IF lo > hi THEN acc
    ELSE IF lo = hi THEN Op(acc, lo)
    ELSE LET left == FoldRange(Op, acc, lo, (lo + hi) \div 2)
         IN  IF left = left THEN FoldRange(Op, left, (lo + hi) \div 2 + 1, hi) ELSE left

Repeat(x, n) == [i \in 1..n |-> x]

\* s[a-1 : b] of Python for 1 <= a, b <= Len(s); empty when a > b.
Slice(s, a, b) == IF a > b THEN <<>> ELSE SubSeq(s, a, b)

\* str.startswith
StartsWith(s, p) == Len(s) >= Len(p) /\ SubSeq(s, 1, Len(p)) = p

\* ASCII whitespace as str.rstrip() and bytes.fromhex() see it.
Whitespace == {" ", "\t", "\n", "\r"}

\* str.rstrip(): s up to its last character that is not whitespace.
RStrip(s) ==
    LET keep == {i \in 1..Len(s) : s[i] \notin Whitespace}
    IN  IF keep = {} THEN <<>>
        ELSE SubSeq(s, 1, CHOOSE i \in keep : \A j \in keep : j <= i)

\* The number of leading elements of s equal to x.
LeadingCount(s, x) ==
    LET other == {i \in 1..Len(s) : s[i] # x}
    IN  IF other = {} THEN Len(s)
        ELSE (CHOOSE i \in other : \A j \in other : i <= j) - 1

(* ------------------------------------------------------------------ *)
(* Hex: bytes.hex() and bytes.fromhex()                                *)
(* ------------------------------------------------------------------ *)

HexLower == <<"0","1","2","3","4","5","6","7","8","9","a","b","c","d","e","f">>

HexUpper == <<"0","1","2","3","4","5","6","7","8","9","A","B","C","D","E","F">>

HexChars == {HexLower[i] : i \in 1..16} \cup {HexUpper[i] : i \in 1..16}

\* The value of a hex digit.
HexVal(c) ==
    (CHOOSE i \in 1..16 : HexLower[i] = c \/ HexUpper[i] = c) - 1

\* bytes.hex(): two lowercase digits per byte.
ToHex(b) ==
    [i \in 1..(2 * Len(b)) |->
        IF i % 2 = 1 THEN HexLower[(b[(i + 1) \div 2] \div 16) + 1]
        ELSE HexLower[(b[i \div 2] % 16) + 1]]

\* bytes.fromhex(): whitespace before a pair is skipped, then two hex digits are
\* required; anything else raises ValueError.  No length is required of the result.
\* st: the bytes so far, the pending first digit of a pair (-1: none), and
\* whether a character was rejected.
FromHexStep(st, c) ==
    IF st.bad THEN st
    ELSE IF st.high < 0 /\ c \in Whitespace THEN st
    ELSE IF c \notin HexChars THEN [st EXCEPT !.bad = TRUE]
    ELSE IF st.high < 0 THEN [st EXCEPT !.high = HexVal(c)]
    ELSE [acc |-> Append(st.acc, 16 * st.high + HexVal(c)), high |-> -1, bad |-> FALSE]

FromHexEnd(st) ==
    IF st.bad \/ st.high >= 0
    THEN Raised("ValueError", <<"non-hexadecimal number found in fromhex() arg">>)
    ELSE Returned(st.acc)

FromHex(s) ==
    LET Step(st, i) == FromHexStep(st, s[i])
    IN  FromHexEnd(FoldRange(Step, [acc |-> <<>>, high |-> -1, bad |-> FALSE], 1, Len(s)))

(* ------------------------------------------------------------------ *)
(* base58 (the Bitcoin alphabet), on big-endian byte strings          *)
(* ------------------------------------------------------------------ *)

Alphabet ==
    <<"1","2","3","4","5","6","7","8","9",
      "A","B","C","D","E","F","G","H","J","K","L","M","N","P","Q","R","S","T","U","V","W","X","Y","Z",
      "a","b","c","d","e","f","g","h","i","j","k","m","n","o","p","q","r","s","t","u","v","w","x","y","z">>

\* divmod(n, 58) of the big-endian number n (no leading zero byte), by long
\* division: <<remainder, quotient without leading zero bytes>>.
DivMod58Step(st, byte) ==
    LET cur == st[1] * 256 + byte
    IN  <<cur % 58,
          IF st[2] = <<>> /\ cur \div 58 = 0 THEN <<>> ELSE Append(st[2], cur \div 58)>>

DivMod58(n) ==
    LET Step(st, i) == DivMod58Step(st, n[i])
    IN  FoldRange(Step, <<0, <<>>>>, 1, Len(n))

\* b58encode_int: while the number is not zero, its remainder by 58 becomes the
\* next digit to the left.  A number of Len(n) bytes has at most
\* Len(n) * 138 / 100 + 1 digits.
PushDigit(rq, digits) == <<rq[2], <<Alphabet[rq[1] + 1]>> \o digits>>

EncodeInt(n) ==
    LET Step(st, k) == IF st[1] = <<>> THEN st ELSE PushDigit(DivMod58(st[1]), st[2])
    IN  FoldRange(Step, <<n, <<>>>>, 1, (Len(n) * 138) \div 100 + 1)[2]

\* An encoding that loses the leading zero bytes.
Encode58Unpadded(v, nPad) == EncodeInt(Slice(v, nPad + 1, Len(v)))

\* base58.b58encode: each leading zero byte becomes a leading "1".
Encode58(v, nPad) == Repeat(Alphabet[1], nPad) \o EncodeInt(Slice(v, nPad + 1, Len(v)))

b58encode(v) == Encode58(v, LeadingCount(v, 0))

\* n * 58 + d on the big-endian number n, from its last byte to its first.
MulAdd58Step(st, byte) ==
    LET cur == byte * 58 + st[1]
    IN  <<cur \div 256, <<cur % 256>> \o st[2]>>

PushCarry(st) == IF st[1] = 0 THEN st[2] ELSE <<st[1]>> \o st[2]

MulAdd58(n, d) ==
    LET Step(st, k) == MulAdd58Step(st, n[Len(n) + 1 - k])
    IN  PushCarry(FoldRange(Step, <<d, <<>>>>, 1, Len(n)))

\* b58decode_int: the number the digits spell; ValueError names the first
\* character outside the alphabet.
AlphabetChars == {Alphabet[i] : i \in 1..58}

\* The value of a base58 digit.
DigitVal(c) == (CHOOSE i \in 1..58 : Alphabet[i] = c) - 1

FirstBad(s) == CHOOSE i \in 1..Len(s) : s[i] \notin AlphabetChars /\ \A j \in 1..(i - 1) : s[j] \in AlphabetChars

DecodeInt(s) ==
    LET Step(acc, i) == MulAdd58(acc, DigitVal(s[i]))
    IN  IF \E i \in 1..Len(s) : s[i] \notin AlphabetChars
        THEN Raised("ValueError", <<"Invalid character", s[FirstBad(s)]>>)
        ELSE Returned(FoldRange(Step, <<>>, 1, Len(s)))

\* A decoding that counts one leading "1" too few.
PadZerosShort(nPad, acc) ==
    IF acc.raised THEN acc
    ELSE Returned(Repeat(0, IF nPad > 0 THEN nPad - 1 ELSE 0) \o acc.val)

\* base58.b58decode: trailing whitespace is stripped, each leading "1" becomes a
\* leading zero byte.
PadZeros(nPad, acc) == IF acc.raised THEN acc ELSE Returned(Repeat(0, nPad) \o acc.val)

Decode58(s, nPad) == PadZeros(nPad, DecodeInt(Slice(s, nPad + 1, Len(s))))

b58decode(v) == Decode58(RStrip(v), LeadingCount(RStrip(v), Alphabet[1]))

(* ------------------------------------------------------------------ *)
(* BLAKE2b values (hashlib.blake2b) at the inputs the model draws       *)
(* ------------------------------------------------------------------ *)

Blake2b256Table ==
    <<
      <<<<101,118,109,58>>, <<162,110,166,217,88,224,30,7,207,59,108,24,199,239,192,103,122,87,51,209,189,255,180,111,168,185,230,26,171,203,123,80>>>>,
      <<<<101,118,109,58,0,0,0,0,0,0,0,0,0,0,0,0,0,0,0,0,0,0,0,0>>, <<194,205,207,1,175,113,99,210,217,155,46,200,121,84,228,193,183,53,233,233,234,128,248,119,91,242,157,217,69,126,172,161>>>>,
      <<<<101,118,109,58,18,52>>, <<57,216,19,16,40,140,154,64,140,64,139,32,173,17,108,255,127,188,100,100,29,95,202,209,62,220,78,43,206,67,242,130>>>>,
      <<<<101,118,109,58,82,144,132,0,9,133,39,136,110,15,112,48,6,152,87,210,228,22,158,231>>, <<211,239,229,113,12,226,132,174,36,106,159,250,162,11,158,242,195,143,101,219,123,41,193,177,37,168,65,131,223,157,60,169>>>>,
      <<<<101,118,109,58,82,144,132,0,9,133,39,136,110,15,112,48,6,152,87,210,228,22,158,231,255>>, <<51,138,79,29,132,161,138,31,141,164,140,67,53,70,196,155,111,235,10,208,104,251,191,171,15,224,10,10,1,251,164,225>>>>
    >>

Blake2b512Table ==
    <<
      <<<<0,0>>, <<91,167,247,228,173,231,229,128>>>>,
      <<<<0,212>>, <<104,111,229,208,234,148,27,26>>>>,
      <<<<0,255>>, <<208,234,198,36,197,41,127,189>>>>,
      <<<<42,0>>, <<150,158,197,30,127,91,106,184>>>>,
      <<<<42,212>>, <<90,139,160,114,217,53,149,149>>>>,
      <<<<42,255>>, <<21,170,118,50,217,102,221,153>>>>,
      <<<<63,0>>, <<133,161,110,134,39,104,244,117>>>>,
      <<<<63,212>>, <<102,213,96,174,112,63,231,71>>>>,
      <<<<63,255>>, <<62,46,245,23,165,217,87,175>>>>,
      <<<<80,0>>, <<97,160,146,142,175,114,107,196>>>>,
      <<<<127,255>>, <<21,21,165,248,86,49,164,237>>>>,
      <<<<0,0,0>>, <<29,118,86,103,88,165,182,191>>>>,
      <<<<0,212,53>>, <<225,220,157,153,30,210,18,164>>>>,
      <<<<0,255,255>>, <<96,128,38,191,61,210,173,64>>>>,
      <<<<42,0,0>>, <<139,79,255,198,153,3,234,78>>>>,
      <<<<42,212,53>>, <<254,232,68,113,229,214,107,228>>>>,
      <<<<42,255,255>>, <<162,46,8,253,11,241,32,23>>>>,
      <<<<63,0,0>>, <<53,175,182,105,0,188,161,133>>>>,
      <<<<63,212,53>>, <<99,189,8,147,124,206,174,182>>>>,
      <<<<63,255,255>>, <<66,48,251,32,9,181,105,237>>>>,
      <<<<80,0,0>>, <<55,194,63,40,199,127,125,165>>>>,
      <<<<80,0,212>>, <<182,238,39,103,86,7,93,60>>>>,
      <<<<80,0,255>>, <<128,69,120,160,90,17,105,215>>>>,
      <<<<127,255,0>>, <<139,30,248,183,190,210,63,136>>>>,
      <<<<127,255,212>>, <<117,23,143,251,198,236,190,224>>>>,
      <<<<127,255,255>>, <<53,183,146,133,41,55,212,156>>>>,
      <<<<80,0,0,0>>, <<255,92,251,82,113,139,95,62>>>>,
      <<<<80,0,212,53>>, <<183,10,230,106,178,65,65,200>>>>,
      <<<<80,0,255,255>>, <<19,62,248,167,154,29,220,208>>>>,
      <<<<127,255,0,0>>, <<224,46,78,87,41,248,235,127>>>>,
      <<<<127,255,212,53>>, <<46,221,252,197,122,72,51,148>>>>,
      <<<<127,255,255,255>>, <<82,23,87,163,158,49,138,75>>>>,
      <<<<0,0,0,0,0>>, <<190,209,177,90,224,218,220,148>>>>,
      <<<<0,212,53,147,199>>, <<207,89,130,179,39,175,123,245>>>>,
      <<<<0,255,255,255,255>>, <<247,34,155,188,98,171,87,254>>>>,
      <<<<42,0,0,0,0>>, <<69,90,104,149,62,251,5,210>>>>,
      <<<<42,212,53,147,199>>, <<19,212,160,190,108,55,12,172>>>>,
      <<<<42,255,255,255,255>>, <<232,164,19,107,38,204,30,187>>>>,
      <<<<63,0,0,0,0>>, <<0,75,86,21,41,244,241,125>>>>,
      <<<<63,212,53,147,199>>, <<69,79,48,108,41,237,46,83>>>>,
      <<<<63,255,255,255,255>>, <<114,80,198,162,4,154,139,199>>>>,
      <<<<80,0,0,0,0>>, <<107,226,253,252,235,107,36,92>>>>,
      <<<<80,0,212,53,147>>, <<226,200,61,133,153,162,43,92>>>>,
      <<<<80,0,255,255,255>>, <<143,43,50,202,134,68,108,56>>>>,
      <<<<127,255,0,0,0>>, <<43,177,251,10,142,37,102,25>>>>,
      <<<<127,255,212,53,147>>, <<159,145,66,23,78,29,117,192>>>>,
      <<<<127,255,255,255,255>>, <<77,240,26,107,190,170,69,94>>>>,
      <<<<80,0,0,0,0,0>>, <<138,19,8,149,134,226,171,122>>>>,
      <<<<80,0,212,53,147,199>>, <<137,101,193,58,214,99,252,159>>>>,
      <<<<80,0,255,255,255,255>>, <<48,164,102,213,125,248,239,222>>>>,
      <<<<127,255,0,0,0,0>>, <<211,185,188,222,38,201,49,78>>>>,
      <<<<127,255,212,53,147,199>>, <<83,11,230,206,144,147,162,53>>>>,
      <<<<127,255,255,255,255,255>>, <<128,5,143,20,77,215,236,144>>>>,
      <<<<0,0,0,0,0,0,0,0,0>>, <<182,129,84,166,111,238,201,245>>>>,
      <<<<0,212,53,147,199,21,253,211,28>>, <<199,53,240,209,106,136,52,159>>>>,
      <<<<0,255,255,255,255,255,255,255,255>>, <<66,121,144,20,132,91,253,82>>>>,
      <<<<42,0,0,0,0,0,0,0,0>>, <<213,174,49,72,115,184,35,150>>>>,
      <<<<42,212,53,147,199,21,253,211,28>>, <<201,252,70,68,5,255,213,100>>>>,
      <<<<42,255,255,255,255,255,255,255,255>>, <<93,181,31,14,12,156,81,166>>>>,
      <<<<63,0,0,0,0,0,0,0,0>>, <<190,132,184,143,194,172,77,15>>>>,
      <<<<63,212,53,147,199,21,253,211,28>>, <<123,70,69,207,77,35,186,9>>>>,
      <<<<63,255,255,255,255,255,255,255,255>>, <<175,40,41,68,219,35,47,42>>>>,
      <<<<80,0,0,0,0,0,0,0,0>>, <<161,79,139,239,197,241,57,217>>>>,
      <<<<80,0,212,53,147,199,21,253,211>>, <<10,128,209,216,229,206,98,180>>>>,
      <<<<80,0,255,255,255,255,255,255,255>>, <<210,84,152,31,27,181,68,123>>>>,
      <<<<83,83,53,56,80,82,69,0,0>>, <<63,95,234,32,165,179,236,198>>>>,
      <<<<83,83,53,56,80,82,69,0,212>>, <<10,86,18,218,172,214,17,71>>>>,
      <<<<83,83,53,56,80,82,69,0,255>>, <<250,57,85,21,15,169,247,184>>>>,
      <<<<83,83,53,56,80,82,69,42,0>>, <<218,209,12,67,232,87,73,227>>>>,
      <<<<83,83,53,56,80,82,69,42,212>>, <<221,197,110,91,39,128,64,115>>>>,
      <<<<83,83,53,56,80,82,69,42,255>>, <<182,245,206,143,243,51,83,244>>>>,
      <<<<83,83,53,56,80,82,69,63,0>>, <<141,161,191,81,69,16,5,29>>>>,
      <<<<83,83,53,56,80,82,69,63,212>>, <<114,65,64,180,111,43,62,243>>>>,
      <<<<83,83,53,56,80,82,69,63,255>>, <<136,103,171,212,59,127,10,92>>>>,
      <<<<83,83,53,56,80,82,69,80,0>>, <<89,183,109,73,2,97,186,126>>>>,
      <<<<83,83,53,56,80,82,69,127,255>>, <<62,4,110,76,145,17,185,160>>>>,
      <<<<127,255,0,0,0,0,0,0,0>>, <<159,218,97,61,213,163,96,238>>>>,
      <<<<127,255,212,53,147,199,21,253,211>>, <<167,176,194,198,217,166,117,120>>>>,
      <<<<127,255,255,255,255,255,255,255,255>>, <<92,50,232,35,10,64,81,78>>>>,
      <<<<80,0,0,0,0,0,0,0,0,0>>, <<6,237,188,137,97,101,128,89>>>>,
      <<<<80,0,212,53,147,199,21,253,211,28>>, <<111,193,90,129,170,255,18,6>>>>,
      <<<<80,0,255,255,255,255,255,255,255,255>>, <<188,218,181,110,57,224,223,128>>>>,
      <<<<83,83,53,56,80,82,69,0,0,0>>, <<143,8,143,116,158,181,43,231>>>>,
      <<<<83,83,53,56,80,82,69,0,212,53>>, <<188,253,98,94,230,200,198,156>>>>,
      <<<<83,83,53,56,80,82,69,0,255,255>>, <<203,247,176,74,127,160,253,84>>>>,
      <<<<83,83,53,56,80,82,69,42,0,0>>, <<80,83,5,239,44,13,126,78>>>>,
      <<<<83,83,53,56,80,82,69,42,212,53>>, <<93,93,100,137,83,198,61,182>>>>,
      <<<<83,83,53,56,80,82,69,42,255,255>>, <<123,51,152,255,63,23,203,26>>>>,
      <<<<83,83,53,56,80,82,69,63,0,0>>, <<231,123,175,247,62,234,206,20>>>>,
      <<<<83,83,53,56,80,82,69,63,212,53>>, <<174,103,33,30,237,111,247,51>>>>,
      <<<<83,83,53,56,80,82,69,63,255,255>>, <<255,49,215,239,131,249,5,243>>>>,
      <<<<83,83,53,56,80,82,69,80,0,0>>, <<217,105,189,137,220,213,30,71>>>>,
      <<<<83,83,53,56,80,82,69,80,0,212>>, <<193,23,8,229,135,120,108,67>>>>,
      <<<<83,83,53,56,80,82,69,80,0,255>>, <<161,197,55,221,232,239,198,94>>>>,
      <<<<83,83,53,56,80,82,69,127,255,0>>, <<226,215,65,98,170,96,77,57>>>>,
      <<<<83,83,53,56,80,82,69,127,255,212>>, <<43,3,232,93,42,252,212,31>>>>,
      <<<<83,83,53,56,80,82,69,127,255,255>>, <<226,255,99,180,177,16,75,12>>>>,
      <<<<127,255,0,0,0,0,0,0,0,0>>, <<157,151,131,90,150,161,178,221>>>>,
      <<<<127,255,212,53,147,199,21,253,211,28>>, <<79,36,55,99,246,19,21,177>>>>,
      <<<<127,255,255,255,255,255,255,255,255,255>>, <<50,158,127,241,158,130,230,26>>>>,
      <<<<83,83,53,56,80,82,69,80,0,0,0>>, <<218,121,92,63,67,28,239,65>>>>,
      <<<<83,83,53,56,80,82,69,80,0,212,53>>, <<45,130,73,181,44,240,162,189>>>>,
      <<<<83,83,53,56,80,82,69,80,0,255,255>>, <<185,223,163,162,88,115,84,77>>>>,
      <<<<83,83,53,56,80,82,69,127,255,0,0>>, <<193,229,75,31,23,130,210,175>>>>,
      <<<<83,83,53,56,80,82,69,127,255,212,53>>, <<213,10,62,35,12,177,138,253>>>>,
      <<<<83,83,53,56,80,82,69,127,255,255,255>>, <<10,108,159,240,10,39,44,217>>>>,
      <<<<83,83,53,56,80,82,69,0,0,0,0,0>>, <<124,170,208,16,162,162,106,105>>>>,
      <<<<83,83,53,56,80,82,69,0,212,53,147,199>>, <<167,105,128,36,85,36,135,55>>>>,
      <<<<83,83,53,56,80,82,69,0,255,255,255,255>>, <<47,116,245,76,97,93,106,2>>>>,
      <<<<83,83,53,56,80,82,69,42,0,0,0,0>>, <<199,100,3,163,32,177,180,142>>>>,
      <<<<83,83,53,56,80,82,69,42,212,53,147,199>>, <<99,17,167,7,63,166,245,201>>>>,
      <<<<83,83,53,56,80,82,69,42,255,255,255,255>>, <<131,38,33,106,251,35,215,117>>>>,
      <<<<83,83,53,56,80,82,69,63,0,0,0,0>>, <<44,71,255,59,192,145,68,52>>>>,
      <<<<83,83,53,56,80,82,69,63,212,53,147,199>>, <<77,125,43,105,150,185,30,155>>>>,
      <<<<83,83,53,56,80,82,69,63,255,255,255,255>>, <<140,221,190,25,208,39,179,25>>>>,
      <<<<83,83,53,56,80,82,69,80,0,0,0,0>>, <<185,120,214,166,178,93,222,55>>>>,
      <<<<83,83,53,56,80,82,69,80,0,212,53,147>>, <<204,170,246,85,54,100,178,4>>>>,
      <<<<83,83,53,56,80,82,69,80,0,255,255,255>>, <<35,152,227,10,207,47,108,97>>>>,
      <<<<83,83,53,56,80,82,69,127,255,0,0,0>>, <<20,254,180,171,136,75,134,47>>>>,
      <<<<83,83,53,56,80,82,69,127,255,212,53,147>>, <<140,61,105,110,140,236,220,90>>>>,
      <<<<83,83,53,56,80,82,69,127,255,255,255,255>>, <<44,150,98,166,202,202,31,207>>>>,
      <<<<83,83,53,56,80,82,69,80,0,0,0,0,0>>, <<98,165,34,220,13,143,28,129>>>>,
      <<<<83,83,53,56,80,82,69,80,0,212,53,147,199>>, <<182,147,93,55,93,42,64,31>>>>,
      <<<<83,83,53,56,80,82,69,80,0,255,255,255,255>>, <<95,246,212,189,133,71,243,153>>>>,
      <<<<83,83,53,56,80,82,69,127,255,0,0,0,0>>, <<158,86,213,29,218,114,92,190>>>>,
      <<<<83,83,53,56,80,82,69,127,255,212,53,147,199>>, <<227,103,112,138,108,211,149,111>>>>,
      <<<<83,83,53,56,80,82,69,127,255,255,255,255,255>>, <<130,243,200,117,211,16,70,112>>>>,
      <<<<83,83,53,56,80,82,69,0,0,0,0,0,0,0,0,0>>, <<12,118,160,92,4,56,49,221>>>>,
      <<<<83,83,53,56,80,82,69,0,212,53,147,199,21,253,211,28>>, <<228,209,229,244,98,252,182,145>>>>,
      <<<<83,83,53,56,80,82,69,0,255,255,255,255,255,255,255,255>>, <<150,208,218,235,189,205,44,146>>>>,
      <<<<83,83,53,56,80,82,69,42,0,0,0,0,0,0,0,0>>, <<116,210,176,102,134,226,91,64>>>>,
      <<<<83,83,53,56,80,82,69,42,212,53,147,199,21,253,211,28>>, <<17,75,234,152,236,25,185,146>>>>,
      <<<<83,83,53,56,80,82,69,42,255,255,255,255,255,255,255,255>>, <<199,198,232,248,219,23,75,158>>>>,
      <<<<83,83,53,56,80,82,69,63,0,0,0,0,0,0,0,0>>, <<202,190,162,127,18,172,28,232>>>>,
      <<<<83,83,53,56,80,82,69,63,212,53,147,199,21,253,211,28>>, <<133,193,20,231,184,95,218,214>>>>,
      <<<<83,83,53,56,80,82,69,63,255,255,255,255,255,255,255,255>>, <<238,211,225,127,175,192,198,157>>>>,
      <<<<83,83,53,56,80,82,69,80,0,0,0,0,0,0,0,0>>, <<151,204,47,103,78,200,191,113>>>>,
      <<<<83,83,53,56,80,82,69,80,0,212,53,147,199,21,253,211>>, <<204,98,53,72,169,24,147,115>>>>,
      <<<<83,83,53,56,80,82,69,80,0,255,255,255,255,255,255,255>>, <<110,198,73,23,12,162,197,191>>>>,
      <<<<83,83,53,56,80,82,69,127,255,0,0,0,0,0,0,0>>, <<201,165,35,185,75,99,123,247>>>>,
      <<<<83,83,53,56,80,82,69,127,255,212,53,147,199,21,253,211>>, <<142,143,78,8,177,22,36,149>>>>,
      <<<<83,83,53,56,80,82,69,127,255,255,255,255,255,255,255,255>>, <<9,231,127,28,32,137,46,26>>>>,
      <<<<83,83,53,56,80,82,69,80,0,0,0,0,0,0,0,0,0>>, <<144,199,61,149,88,231,5,188>>>>,
      <<<<83,83,53,56,80,82,69,80,0,212,53,147,199,21,253,211,28>>, <<191,254,235,205,136,20,91,141>>>>,
      <<<<83,83,53,56,80,82,69,80,0,255,255,255,255,255,255,255,255>>, <<231,5,120,109,192,160,89,153>>>>,
      <<<<83,83,53,56,80,82,69,127,255,0,0,0,0,0,0,0,0>>, <<79,149,194,103,174,76,173,123>>>>,
      <<<<83,83,53,56,80,82,69,127,255,212,53,147,199,21,253,211,28>>, <<244,153,236,19,91,92,142,10>>>>,
      <<<<83,83,53,56,80,82,69,127,255,255,255,255,255,255,255,255,255>>, <<239,166,94,237,2,105,53,88>>>>,
      <<<<0,0,0,0,0,0,0,0,0,0,0,0,0,0,0,0,0,0,0,0,0,0,0,0,0,0,0,0,0,0,0,0,0>>, <<229,149,11,33,190,83,165,181>>>>,
      <<<<0,0,0,0,0,0,0,0,0,0,0,0,0,0,0,0,0,0,0,0,0,0,0,0,0,0,0,0,0,0,0,0,1>>, <<189,34,71,10,243,233,116,20>>>>,
      <<<<0,0,0,0,0,0,0,0,0,0,0,0,0,0,0,0,0,0,0,0,0,0,0,0,0,0,0,0,0,0,0,0,128>>, <<162,13,107,114,166,230,9,174>>>>,
      <<<<0,0,0,0,0,0,0,0,0,0,0,0,0,0,0,0,0,0,0,0,0,0,0,0,0,0,0,0,0,0,0,222,116>>, <<153,50,173,183,222,164,154,72>>>>,
      <<<<0,0,0,0,0,0,0,0,0,0,0,0,0,0,0,0,0,0,0,0,0,0,0,0,0,0,0,0,0,0,0,222,117>>, <<51,35,236,49,158,31,54,244>>>>,
      <<<<0,0,0,0,0,0,0,0,0,0,0,0,0,0,0,0,0,0,0,0,0,0,0,0,0,0,0,0,0,0,0,222,245>>, <<91,2,99,150,96,218,56,28>>>>,
      <<<<0,0,0,0,0,0,0,0,0,0,0,0,0,1,0,0,0,0,0,0,0,0,0,0,0,0,0,0,0,0,0,0,0>>, <<155,32,113,100,219,204,131,170>>>>,
      <<<<0,0,0,0,0,0,0,0,0,0,0,0,0,1,0,0,0,0,0,0,0,0,0,0,0,0,0,0,0,0,0,222,117>>, <<135,36,112,172,66,224,23,173>>>>,
      <<<<0,0,0,0,0,0,0,0,0,0,0,0,0,128,0,0,0,0,0,0,0,0,0,0,0,0,0,0,0,0,0,0,0>>, <<245,185,198,76,45,71,154,86>>>>,
      <<<<0,0,0,0,0,0,0,0,0,0,0,0,0,128,0,0,0,0,0,0,0,0,0,0,0,0,0,0,0,0,0,222,117>>, <<109,107,240,197,9,245,156,185>>>>,
      <<<<0,1,0,0,0,0,0,0,0,0,0,0,0,0,0,0,0,0,0,0,0,0,0,0,0,0,0,0,0,0,0,0,0>>, <<2,41,79,211,222,252,199,110>>>>,
      <<<<0,1,0,0,0,0,0,0,0,0,0,0,0,0,0,0,0,0,0,0,0,0,0,0,0,0,0,0,0,0,0,222,117>>, <<126,64,71,81,161,22,142,210>>>>,
      <<<<0,51,138,79,29,132,161,138,31,141,164,140,67,53,70,196,155,111,235,10,208,104,251,191,171,15,224,10,10,1,251,164,225>>, <<113,108,254,211,136,165,153,3>>>>,
      <<<<0,57,216,19,16,40,140,154,64,140,64,139,32,173,17,108,255,127,188,100,100,29,95,202,209,62,220,78,43,206,67,242,130>>, <<81,21,66,203,158,243,21,234>>>>,
      <<<<0,84,53,147,199,21,253,211,28,97,20,26,189,4,169,159,214,130,44,133,88,133,76,205,227,154,86,132,231,165,109,162,125>>, <<54,17,209,218,204,68,232,112>>>>,
      <<<<0,127,255,255,255,255,255,255,255,255,255,255,255,0,0,0,0,0,0,0,0,0,0,0,0,0,0,0,0,0,0,0,0>>, <<41,170,194,61,13,146,248,201>>>>,
      <<<<0,127,255,255,255,255,255,255,255,255,255,255,255,255,255,255,255,255,255,255,255,255,255,255,255,255,255,255,255,255,255,255,255>>, <<15,126,9,41,72,192,78,54>>>>,
      <<<<0,128,0,0,0,0,0,0,0,0,0,0,0,0,0,0,0,0,0,0,0,0,0,0,0,0,0,0,0,0,0,0,0>>, <<198,151,82,58,95,120,107,96>>>>,
      <<<<0,128,0,0,0,0,0,0,0,0,0,0,0,0,0,0,0,0,0,0,0,0,0,0,0,0,0,0,0,0,0,222,117>>, <<232,67,55,190,183,116,30,84>>>>,
      <<<<0,162,110,166,217,88,224,30,7,207,59,108,24,199,239,192,103,122,87,51,209,189,255,180,111,168,185,230,26,171,203,123,80>>, <<163,50,71,109,134,22,148,11>>>>,
      <<<<0,194,205,207,1,175,113,99,210,217,155,46,200,121,84,228,193,183,53,233,233,234,128,248,119,91,242,157,217,69,126,172,161>>, <<19,231,50,61,57,196,36,98>>>>,
      <<<<0,211,239,229,113,12,226,132,174,36,106,159,250,162,11,158,242,195,143,101,219,123,41,193,177,37,168,65,131,223,157,60,169>>, <<141,145,71,216,11,148,24,255>>>>,
      <<<<0,212,53,147,199,21,253,211,28,97,20,26,189,4,169,159,214,130,44,133,88,133,76,205,227,154,86,132,231,165,109,162,124>>, <<32,202,165,114,1,152,146,28>>>>,
      <<<<0,212,53,147,199,21,253,211,28,97,20,26,189,4,169,159,214,130,44,133,88,133,76,205,227,154,86,132,231,165,109,162,125>>, <<201,21,234,174,36,73,47,55>>>>,
      <<<<0,212,53,147,199,21,253,211,28,97,20,26,189,4,169,159,214,130,44,133,88,133,76,205,227,154,86,132,231,165,109,162,253>>, <<97,19,170,129,180,186,101,210>>>>,
      <<<<0,212,53,147,199,21,253,211,28,97,20,26,189,5,169,159,214,130,44,133,88,133,76,205,227,154,86,132,231,165,109,162,125>>, <<139,51,64,130,86,10,216,72>>>>,
      <<<<0,212,53,147,199,21,253,211,28,97,20,26,189,132,169,159,214,130,44,133,88,133,76,205,227,154,86,132,231,165,109,162,125>>, <<117,35,186,246,8,27,120,212>>>>,
      <<<<0,213,53,147,199,21,253,211,28,97,20,26,189,4,169,159,214,130,44,133,88,133,76,205,227,154,86,132,231,165,109,162,125>>, <<210,146,122,187,139,183,55,141>>>>,
      <<<<0,254,255,255,255,255,255,255,255,255,255,255,255,0,0,0,0,0,0,0,0,0,0,0,0,0,0,0,0,0,0,0,0>>, <<85,246,174,95,90,130,139,111>>>>,
      <<<<0,254,255,255,255,255,255,255,255,255,255,255,255,255,255,255,255,255,255,255,255,255,255,255,255,255,255,255,255,255,255,255,255>>, <<108,152,45,63,147,118,70,156>>>>,
      <<<<0,255,255,255,255,255,255,255,255,255,255,255,255,0,0,0,0,0,0,0,0,0,0,0,0,0,0,0,0,0,0,0,0>>, <<254,28,161,127,226,54,119,207>>>>,
      <<<<0,255,255,255,255,255,255,255,255,255,255,255,255,0,0,0,0,0,0,0,0,0,0,0,0,0,0,0,0,0,0,0,1>>, <<233,189,79,78,47,196,248,50>>>>,
      <<<<0,255,255,255,255,255,255,255,255,255,255,255,255,0,0,0,0,0,0,0,0,0,0,0,0,0,0,0,0,0,0,0,128>>, <<151,106,113,100,130,45,10,95>>>>,
      <<<<0,255,255,255,255,255,255,255,255,255,255,255,255,1,0,0,0,0,0,0,0,0,0,0,0,0,0,0,0,0,0,0,0>>, <<200,182,66,96,172,228,97,126>>>>,
      <<<<0,255,255,255,255,255,255,255,255,255,255,255,255,127,255,255,255,255,255,255,255,255,255,255,255,255,255,255,255,255,255,255,255>>, <<235,153,83,19,22,7,86,86>>>>,
      <<<<0,255,255,255,255,255,255,255,255,255,255,255,255,128,0,0,0,0,0,0,0,0,0,0,0,0,0,0,0,0,0,0,0>>, <<60,210,75,155,255,250,207,22>>>>,
      <<<<0,255,255,255,255,255,255,255,255,255,255,255,255,254,255,255,255,255,255,255,255,255,255,255,255,255,255,255,255,255,255,255,255>>, <<90,255,58,90,203,88,157,229>>>>,
      <<<<0,255,255,255,255,255,255,255,255,255,255,255,255,255,255,255,255,255,255,255,255,255,255,255,255,255,255,255,255,255,255,255,127>>, <<209,170,252,109,113,90,88,102>>>>,
      <<<<0,255,255,255,255,255,255,255,255,255,255,255,255,255,255,255,255,255,255,255,255,255,255,255,255,255,255,255,255,255,255,255,254>>, <<64,245,155,125,224,96,150,27>>>>,
      <<<<0,255,255,255,255,255,255,255,255,255,255,255,255,255,255,255,255,255,255,255,255,255,255,255,255,255,255,255,255,255,255,255,255>>, <<239,15,27,173,49,60,244,194>>>>,
      <<<<42,0,0,0,0,0,0,0,0,0,0,0,0,0,0,0,0,0,0,0,0,0,0,0,0,0,0,0,0,0,0,0,0>>, <<189,40,41,140,169,28,180,207>>>>,
      <<<<42,0,0,0,0,0,0,0,0,0,0,0,0,0,0,0,0,0,0,0,0,0,0,0,0,0,0,0,0,0,0,0,1>>, <<179,93,26,107,28,142,215,177>>>>,
      <<<<42,0,0,0,0,0,0,0,0,0,0,0,0,0,0,0,0,0,0,0,0,0,0,0,0,0,0,0,0,0,0,0,128>>, <<168,243,187,252,26,35,89,97>>>>,
      <<<<42,0,0,0,0,0,0,0,0,0,0,0,0,0,0,0,0,0,0,0,0,0,0,0,0,0,0,0,0,0,0,222,116>>, <<48,34,134,147,85,62,54,182>>>>,
      <<<<42,0,0,0,0,0,0,0,0,0,0,0,0,0,0,0,0,0,0,0,0,0,0,0,0,0,0,0,0,0,0,222,117>>, <<239,198,73,170,135,111,135,211>>>>,
      <<<<42,0,0,0,0,0,0,0,0,0,0,0,0,0,0,0,0,0,0,0,0,0,0,0,0,0,0,0,0,0,0,222,245>>, <<98,54,26,178,227,241,184,170>>>>,
      <<<<42,0,0,0,0,0,0,0,0,0,0,0,0,1,0,0,0,0,0,0,0,0,0,0,0,0,0,0,0,0,0,0,0>>, <<120,251,223,122,60,148,250,192>>>>,
      <<<<42,0,0,0,0,0,0,0,0,0,0,0,0,1,0,0,0,0,0,0,0,0,0,0,0,0,0,0,0,0,0,222,117>>, <<192,93,17,16,223,190,127,186>>>>,
      <<<<42,0,0,0,0,0,0,0,0,0,0,0,0,128,0,0,0,0,0,0,0,0,0,0,0,0,0,0,0,0,0,0,0>>, <<162,58,103,39,64,35,38,143>>>>,
      <<<<42,0,0,0,0,0,0,0,0,0,0,0,0,128,0,0,0,0,0,0,0,0,0,0,0,0,0,0,0,0,0,222,117>>, <<170,97,55,4,243,67,34,143>>>>,
      <<<<42,1,0,0,0,0,0,0,0,0,0,0,0,0,0,0,0,0,0,0,0,0,0,0,0,0,0,0,0,0,0,0,0>>, <<205,198,140,89,3,89,232,213>>>>,
      <<<<42,1,0,0,0,0,0,0,0,0,0,0,0,0,0,0,0,0,0,0,0,0,0,0,0,0,0,0,0,0,0,222,117>>, <<246,209,98,240,100,104,179,99>>>>,
      <<<<42,51,138,79,29,132,161,138,31,141,164,140,67,53,70,196,155,111,235,10,208,104,251,191,171,15,224,10,10,1,251,164,225>>, <<112,0,102,163,64,74,71,208>>>>,
      <<<<42,57,216,19,16,40,140,154,64,140,64,139,32,173,17,108,255,127,188,100,100,29,95,202,209,62,220,78,43,206,67,242,130>>, <<173,164,143,207,66,193,130,48>>>>,
      <<<<42,84,53,147,199,21,253,211,28,97,20,26,189,4,169,159,214,130,44,133,88,133,76,205,227,154,86,132,231,165,109,162,125>>, <<242,4,196,92,142,188,27,196>>>>,
      <<<<42,127,255,255,255,255,255,255,255,255,255,255,255,0,0,0,0,0,0,0,0,0,0,0,0,0,0,0,0,0,0,0,0>>, <<231,128,117,85,79,59,187,59>>>>,
      <<<<42,127,255,255,255,255,255,255,255,255,255,255,255,255,255,255,255,255,255,255,255,255,255,255,255,255,255,255,255,255,255,255,255>>, <<113,244,93,74,39,89,232,170>>>>,
      <<<<42,128,0,0,0,0,0,0,0,0,0,0,0,0,0,0,0,0,0,0,0,0,0,0,0,0,0,0,0,0,0,0,0>>, <<58,228,113,42,193,92,96,155>>>>,
      <<<<42,128,0,0,0,0,0,0,0,0,0,0,0,0,0,0,0,0,0,0,0,0,0,0,0,0,0,0,0,0,0,222,117>>, <<160,183,148,117,222,109,99,37>>>>,
      <<<<42,162,110,166,217,88,224,30,7,207,59,108,24,199,239,192,103,122,87,51,209,189,255,180,111,168,185,230,26,171,203,123,80>>, <<138,1,236,174,107,210,198,223>>>>,
      <<<<42,194,205,207,1,175,113,99,210,217,155,46,200,121,84,228,193,183,53,233,233,234,128,248,119,91,242,157,217,69,126,172,161>>, <<197,116,173,67,189,94,28,10>>>>,
      <<<<42,211,239,229,113,12,226,132,174,36,106,159,250,162,11,158,242,195,143,101,219,123,41,193,177,37,168,65,131,223,157,60,169>>, <<167,67,109,38,238,206,183,174>>>>,
      <<<<42,212,53,147,199,21,253,211,28,97,20,26,189,4,169,159,214,130,44,133,88,133,76,205,227,154,86,132,231,165,109,162,124>>, <<44,84,203,204,219,199,142,102>>>>,
      <<<<42,212,53,147,199,21,253,211,28,97,20,26,189,4,169,159,214,130,44,133,88,133,76,205,227,154,86,132,231,165,109,162,125>>, <<150,240,27,173,178,101,237,47>>>>,
      <<<<42,212,53,147,199,21,253,211,28,97,20,26,189,4,169,159,214,130,44,133,88,133,76,205,227,154,86,132,231,165,109,162,253>>, <<192,145,229,123,82,182,193,85>>>>,
      <<<<42,212,53,147,199,21,253,211,28,97,20,26,189,5,169,159,214,130,44,133,88,133,76,205,227,154,86,132,231,165,109,162,125>>, <<9,159,147,118,83,38,48,51>>>>,
      <<<<42,212,53,147,199,21,253,211,28,97,20,26,189,132,169,159,214,130,44,133,88,133,76,205,227,154,86,132,231,165,109,162,125>>, <<204,5,126,218,12,242,51,142>>>>,
      <<<<42,213,53,147,199,21,253,211,28,97,20,26,189,4,169,159,214,130,44,133,88,133,76,205,227,154,86,132,231,165,109,162,125>>, <<28,124,138,86,193,180,152,195>>>>,
      <<<<42,254,255,255,255,255,255,255,255,255,255,255,255,0,0,0,0,0,0,0,0,0,0,0,0,0,0,0,0,0,0,0,0>>, <<32,193,8,42,129,182,56,33>>>>,
      <<<<42,254,255,255,255,255,255,255,255,255,255,255,255,255,255,255,255,255,255,255,255,255,255,255,255,255,255,255,255,255,255,255,255>>, <<125,232,157,128,21,112,249,33>>>>,
      <<<<42,255,255,255,255,255,255,255,255,255,255,255,255,0,0,0,0,0,0,0,0,0,0,0,0,0,0,0,0,0,0,0,0>>, <<150,85,222,99,10,114,240,42>>>>,
      <<<<42,255,255,255,255,255,255,255,255,255,255,255,255,0,0,0,0,0,0,0,0,0,0,0,0,0,0,0,0,0,0,0,1>>, <<174,49,112,71,189,164,188,164>>>>,
      <<<<42,255,255,255,255,255,255,255,255,255,255,255,255,0,0,0,0,0,0,0,0,0,0,0,0,0,0,0,0,0,0,0,128>>, <<7,134,129,134,173,74,207,202>>>>,
      <<<<42,255,255,255,255,255,255,255,255,255,255,255,255,1,0,0,0,0,0,0,0,0,0,0,0,0,0,0,0,0,0,0,0>>, <<216,29,243,201,98,20,199,101>>>>,
      <<<<42,255,255,255,255,255,255,255,255,255,255,255,255,127,255,255,255,255,255,255,255,255,255,255,255,255,255,255,255,255,255,255,255>>, <<123,62,21,155,92,176,19,30>>>>,
      <<<<42,255,255,255,255,255,255,255,255,255,255,255,255,128,0,0,0,0,0,0,0,0,0,0,0,0,0,0,0,0,0,0,0>>, <<160,206,216,17,202,204,184,175>>>>,
      <<<<42,255,255,255,255,255,255,255,255,255,255,255,255,254,255,255,255,255,255,255,255,255,255,255,255,255,255,255,255,255,255,255,255>>, <<40,211,171,55,118,225,116,130>>>>,
      <<<<42,255,255,255,255,255,255,255,255,255,255,255,255,255,255,255,255,255,255,255,255,255,255,255,255,255,255,255,255,255,255,255,127>>, <<192,226,164,202,86,182,161,26>>>>,
      <<<<42,255,255,255,255,255,255,255,255,255,255,255,255,255,255,255,255,255,255,255,255,255,255,255,255,255,255,255,255,255,255,255,254>>, <<86,216,25,251,251,5,172,152>>>>,
      <<<<42,255,255,255,255,255,255,255,255,255,255,255,255,255,255,255,255,255,255,255,255,255,255,255,255,255,255,255,255,255,255,255,255>>, <<20,247,230,4,205,99,63,97>>>>,
      <<<<63,0,0,0,0,0,0,0,0,0,0,0,0,0,0,0,0,0,0,0,0,0,0,0,0,0,0,0,0,0,0,0,0>>, <<21,21,184,114,99,177,82,226>>>>,
      <<<<63,0,0,0,0,0,0,0,0,0,0,0,0,0,0,0,0,0,0,0,0,0,0,0,0,0,0,0,0,0,0,0,1>>, <<96,70,216,206,45,209,60,196>>>>,
      <<<<63,0,0,0,0,0,0,0,0,0,0,0,0,0,0,0,0,0,0,0,0,0,0,0,0,0,0,0,0,0,0,0,128>>, <<38,61,60,62,115,143,99,198>>>>,
      <<<<63,0,0,0,0,0,0,0,0,0,0,0,0,0,0,0,0,0,0,0,0,0,0,0,0,0,0,0,0,0,0,222,116>>, <<41,97,240,6,109,226,170,164>>>>,
      <<<<63,0,0,0,0,0,0,0,0,0,0,0,0,0,0,0,0,0,0,0,0,0,0,0,0,0,0,0,0,0,0,222,117>>, <<150,184,177,168,243,244,253,213>>>>,
      <<<<63,0,0,0,0,0,0,0,0,0,0,0,0,0,0,0,0,0,0,0,0,0,0,0,0,0,0,0,0,0,0,222,245>>, <<226,170,143,140,182,70,74,182>>>>,
      <<<<63,0,0,0,0,0,0,0,0,0,0,0,0,1,0,0,0,0,0,0,0,0,0,0,0,0,0,0,0,0,0,0,0>>, <<239,87,205,194,206,0,108,231>>>>,
      <<<<63,0,0,0,0,0,0,0,0,0,0,0,0,1,0,0,0,0,0,0,0,0,0,0,0,0,0,0,0,0,0,222,117>>, <<251,159,253,136,254,51,175,187>>>>,
      <<<<63,0,0,0,0,0,0,0,0,0,0,0,0,128,0,0,0,0,0,0,0,0,0,0,0,0,0,0,0,0,0,0,0>>, <<74,61,219,200,180,141,74,90>>>>,
      <<<<63,0,0,0,0,0,0,0,0,0,0,0,0,128,0,0,0,0,0,0,0,0,0,0,0,0,0,0,0,0,0,222,117>>, <<7,120,31,111,234,24,218,216>>>>,
      <<<<63,1,0,0,0,0,0,0,0,0,0,0,0,0,0,0,0,0,0,0,0,0,0,0,0,0,0,0,0,0,0,0,0>>, <<222,104,83,3,137,7,54,52>>>>,
      <<<<63,1,0,0,0,0,0,0,0,0,0,0,0,0,0,0,0,0,0,0,0,0,0,0,0,0,0,0,0,0,0,222,117>>, <<28,1,29,246,142,223,252,196>>>>,
      <<<<63,51,138,79,29,132,161,138,31,141,164,140,67,53,70,196,155,111,235,10,208,104,251,191,171,15,224,10,10,1,251,164,225>>, <<78,108,121,96,201,134,68,75>>>>,
      <<<<63,57,216,19,16,40,140,154,64,140,64,139,32,173,17,108,255,127,188,100,100,29,95,202,209,62,220,78,43,206,67,242,130>>, <<160,1,149,4,79,180,191,173>>>>,
      <<<<63,84,53,147,199,21,253,211,28,97,20,26,189,4,169,159,214,130,44,133,88,133,76,205,227,154,86,132,231,165,109,162,125>>, <<198,253,72,119,125,108,200,65>>>>,
      <<<<63,127,255,255,255,255,255,255,255,255,255,255,255,0,0,0,0,0,0,0,0,0,0,0,0,0,0,0,0,0,0,0,0>>, <<217,205,37,59,70,20,42,159>>>>,
      <<<<63,127,255,255,255,255,255,255,255,255,255,255,255,255,255,255,255,255,255,255,255,255,255,255,255,255,255,255,255,255,255,255,255>>, <<191,215,75,48,49,182,97,222>>>>,
      <<<<63,128,0,0,0,0,0,0,0,0,0,0,0,0,0,0,0,0,0,0,0,0,0,0,0,0,0,0,0,0,0,0,0>>, <<236,8,21,125,247,10,226,37>>>>,
      <<<<63,128,0,0,0,0,0,0,0,0,0,0,0,0,0,0,0,0,0,0,0,0,0,0,0,0,0,0,0,0,0,222,117>>, <<152,99,67,102,104,200,124,93>>>>,
      <<<<63,162,110,166,217,88,224,30,7,207,59,108,24,199,239,192,103,122,87,51,209,189,255,180,111,168,185,230,26,171,203,123,80>>, <<95,176,92,28,138,201,60,215>>>>,
      <<<<63,194,205,207,1,175,113,99,210,217,155,46,200,121,84,228,193,183,53,233,233,234,128,248,119,91,242,157,217,69,126,172,161>>, <<30,230,225,81,228,153,186,199>>>>,
      <<<<63,211,239,229,113,12,226,132,174,36,106,159,250,162,11,158,242,195,143,101,219,123,41,193,177,37,168,65,131,223,157,60,169>>, <<210,216,4,150,77,167,197,44>>>>,
      <<<<63,212,53,147,199,21,253,211,28,97,20,26,189,4,169,159,214,130,44,133,88,133,76,205,227,154,86,132,231,165,109,162,124>>, <<219,93,153,253,178,185,239,179>>>>,
      <<<<63,212,53,147,199,21,253,211,28,97,20,26,189,4,169,159,214,130,44,133,88,133,76,205,227,154,86,132,231,165,109,162,125>>, <<218,138,197,160,237,203,75,8>>>>,
      <<<<63,212,53,147,199,21,253,211,28,97,20,26,189,4,169,159,214,130,44,133,88,133,76,205,227,154,86,132,231,165,109,162,253>>, <<122,177,24,74,137,130,6,129>>>>,
      <<<<63,212,53,147,199,21,253,211,28,97,20,26,189,5,169,159,214,130,44,133,88,133,76,205,227,154,86,132,231,165,109,162,125>>, <<116,114,27,243,157,225,194,178>>>>,
      <<<<63,212,53,147,199,21,253,211,28,97,20,26,189,132,169,159,214,130,44,133,88,133,76,205,227,154,86,132,231,165,109,162,125>>, <<169,117,65,138,47,225,24,16>>>>,
      <<<<63,213,53,147,199,21,253,211,28,97,20,26,189,4,169,159,214,130,44,133,88,133,76,205,227,154,86,132,231,165,109,162,125>>, <<23,196,208,143,96,241,235,50>>>>,
      <<<<63,254,255,255,255,255,255,255,255,255,255,255,255,0,0,0,0,0,0,0,0,0,0,0,0,0,0,0,0,0,0,0,0>>, <<129,218,145,195,180,121,95,40>>>>,
      <<<<63,254,255,255,255,255,255,255,255,255,255,255,255,255,255,255,255,255,255,255,255,255,255,255,255,255,255,255,255,255,255,255,255>>, <<250,197,69,217,141,166,52,84>>>>,
      <<<<63,255,255,255,255,255,255,255,255,255,255,255,255,0,0,0,0,0,0,0,0,0,0,0,0,0,0,0,0,0,0,0,0>>, <<73,39,25,12,10,213,72,144>>>>,
      <<<<63,255,255,255,255,255,255,255,255,255,255,255,255,0,0,0,0,0,0,0,0,0,0,0,0,0,0,0,0,0,0,0,1>>, <<71,157,92,6,58,217,152,240>>>>,
      <<<<63,255,255,255,255,255,255,255,255,255,255,255,255,0,0,0,0,0,0,0,0,0,0,0,0,0,0,0,0,0,0,0,128>>, <<200,160,35,215,3,199,12,68>>>>,
      <<<<63,255,255,255,255,255,255,255,255,255,255,255,255,1,0,0,0,0,0,0,0,0,0,0,0,0,0,0,0,0,0,0,0>>, <<60,215,64,212,158,105,101,118>>>>,
      <<<<63,255,255,255,255,255,255,255,255,255,255,255,255,127,255,255,255,255,255,255,255,255,255,255,255,255,255,255,255,255,255,255,255>>, <<28,123,178,136,65,76,180,111>>>>,
      <<<<63,255,255,255,255,255,255,255,255,255,255,255,255,128,0,0,0,0,0,0,0,0,0,0,0,0,0,0,0,0,0,0,0>>, <<141,38,252,167,2,236,87,213>>>>,
      <<<<63,255,255,255,255,255,255,255,255,255,255,255,255,254,255,255,255,255,255,255,255,255,255,255,255,255,255,255,255,255,255,255,255>>, <<24,226,129,51,141,193,249,232>>>>,
      <<<<63,255,255,255,255,255,255,255,255,255,255,255,255,255,255,255,255,255,255,255,255,255,255,255,255,255,255,255,255,255,255,255,127>>, <<106,105,79,76,154,66,244,169>>>>,
      <<<<63,255,255,255,255,255,255,255,255,255,255,255,255,255,255,255,255,255,255,255,255,255,255,255,255,255,255,255,255,255,255,255,254>>, <<23,165,155,18,101,180,118,153>>>>,
      <<<<63,255,255,255,255,255,255,255,255,255,255,255,255,255,255,255,255,255,255,255,255,255,255,255,255,255,255,255,255,255,255,255,255>>, <<20,27,180,148,205,128,70,72>>>>,
      <<<<0,0,0,0,0,0,0,0,0,0,0,0,0,0,0,0,0,0,0,0,0,0,0,0,0,0,0,0,0,0,0,0,0,7>>, <<77,179,191,247,221,34,134,75>>>>,
      <<<<0,0,0,0,0,0,0,0,0,0,0,0,0,0,0,0,0,0,0,0,0,0,0,0,0,0,0,0,0,0,0,222,117,7>>, <<36,45,118,56,224,33,3,227>>>>,
      <<<<0,212,53,147,199,21,253,211,28,97,20,26,189,4,169,159,214,130,44,133,88,133,76,205,227,154,86,132,231,165,109,162,125,7>>, <<69,86,213,142,164,172,159,220>>>>,
      <<<<0,255,255,255,255,255,255,255,255,255,255,255,255,0,0,0,0,0,0,0,0,0,0,0,0,0,0,0,0,0,0,0,0,7>>, <<32,173,15,130,72,138,68,61>>>>,
      <<<<0,255,255,255,255,255,255,255,255,255,255,255,255,255,255,255,255,255,255,255,255,255,255,255,255,255,255,255,255,255,255,255,255,7>>, <<80,213,69,147,165,87,208,81>>>>,
      <<<<42,0,0,0,0,0,0,0,0,0,0,0,0,0,0,0,0,0,0,0,0,0,0,0,0,0,0,0,0,0,0,0,0,7>>, <<213,161,235,152,103,99,215,32>>>>,
      <<<<42,0,0,0,0,0,0,0,0,0,0,0,0,0,0,0,0,0,0,0,0,0,0,0,0,0,0,0,0,0,0,222,117,7>>, <<214,88,45,128,252,223,220,251>>>>,
      <<<<42,212,53,147,199,21,253,211,28,97,20,26,189,4,169,159,214,130,44,133,88,133,76,205,227,154,86,132,231,165,109,162,125,7>>, <<25,180,227,254,217,105,68,7>>>>,
      <<<<42,255,255,255,255,255,255,255,255,255,255,255,255,0,0,0,0,0,0,0,0,0,0,0,0,0,0,0,0,0,0,0,0,7>>, <<39,176,238,218,197,244,42,198>>>>,
      <<<<42,255,255,255,255,255,255,255,255,255,255,255,255,255,255,255,255,255,255,255,255,255,255,255,255,255,255,255,255,255,255,255,255,7>>, <<115,62,147,165,175,39,14,101>>>>,
      <<<<63,0,0,0,0,0,0,0,0,0,0,0,0,0,0,0,0,0,0,0,0,0,0,0,0,0,0,0,0,0,0,0,0,7>>, <<196,79,95,51,80,191,52,247>>>>,
      <<<<63,0,0,0,0,0,0,0,0,0,0,0,0,0,0,0,0,0,0,0,0,0,0,0,0,0,0,0,0,0,0,222,117,7>>, <<185,47,41,144,25,214,83,236>>>>,
      <<<<63,212,53,147,199,21,253,211,28,97,20,26,189,4,169,159,214,130,44,133,88,133,76,205,227,154,86,132,231,165,109,162,125,7>>, <<154,12,94,8,170,155,24,218>>>>,
      <<<<63,255,255,255,255,255,255,255,255,255,255,255,255,0,0,0,0,0,0,0,0,0,0,0,0,0,0,0,0,0,0,0,0,7>>, <<201,150,44,150,67,78,73,39>>>>,
      <<<<63,255,255,255,255,255,255,255,255,255,255,255,255,255,255,255,255,255,255,255,255,255,255,255,255,255,255,255,255,255,255,255,255,7>>, <<167,93,136,136,35,168,18,235>>>>,
      <<<<80,0,0,0,0,0,0,0,0,0,0,0,0,0,0,0,0,0,0,0,0,0,0,0,0,0,0,0,0,0,0,0,0,0>>, <<175,240,129,245,22,232,106,2>>>>,
      <<<<80,0,0,0,0,0,0,0,0,0,0,0,0,0,0,0,0,0,0,0,0,0,0,0,0,0,0,0,0,0,0,0,0,1>>, <<251,24,21,7,182,160,71,130>>>>,
      <<<<80,0,0,0,0,0,0,0,0,0,0,0,0,0,0,0,0,0,0,0,0,0,0,0,0,0,0,0,0,0,0,0,0,128>>, <<10,97,216,61,133,22,228,103>>>>,
      <<<<80,0,0,0,0,0,0,0,0,0,0,0,0,0,0,0,0,0,0,0,0,0,0,0,0,0,0,0,0,0,0,0,222,116>>, <<139,38,235,52,192,15,34,142>>>>,
      <<<<80,0,0,0,0,0,0,0,0,0,0,0,0,0,0,0,0,0,0,0,0,0,0,0,0,0,0,0,0,0,0,0,222,117>>, <<37,61,38,179,211,151,108,135>>>>,
      <<<<80,0,0,0,0,0,0,0,0,0,0,0,0,0,0,0,0,0,0,0,0,0,0,0,0,0,0,0,0,0,0,0,222,245>>, <<223,65,161,212,250,179,218,58>>>>,
      <<<<80,0,0,0,0,0,0,0,0,0,0,0,0,0,1,0,0,0,0,0,0,0,0,0,0,0,0,0,0,0,0,0,0,0>>, <<71,122,2,219,145,171,81,5>>>>,
      <<<<80,0,0,0,0,0,0,0,0,0,0,0,0,0,1,0,0,0,0,0,0,0,0,0,0,0,0,0,0,0,0,0,222,117>>, <<221,72,126,69,31,153,6,209>>>>,
      <<<<80,0,0,0,0,0,0,0,0,0,0,0,0,0,128,0,0,0,0,0,0,0,0,0,0,0,0,0,0,0,0,0,0,0>>, <<122,153,237,66,181,241,139,87>>>>,
      <<<<80,0,0,0,0,0,0,0,0,0,0,0,0,0,128,0,0,0,0,0,0,0,0,0,0,0,0,0,0,0,0,0,222,117>>, <<252,179,225,188,184,4,203,19>>>>,
      <<<<80,0,1,0,0,0,0,0,0,0,0,0,0,0,0,0,0,0,0,0,0,0,0,0,0,0,0,0,0,0,0,0,0,0>>, <<6,10,92,176,118,113,75,112>>>>,
      <<<<80,0,1,0,0,0,0,0,0,0,0,0,0,0,0,0,0,0,0,0,0,0,0,0,0,0,0,0,0,0,0,0,222,117>>, <<177,220,124,199,6,206,57,236>>>>,
      <<<<80,0,51,138,79,29,132,161,138,31,141,164,140,67,53,70,196,155,111,235,10,208,104,251,191,171,15,224,10,10,1,251,164,225>>, <<171,124,239,98,119,54,84,202>>>>,
      <<<<80,0,57,216,19,16,40,140,154,64,140,64,139,32,173,17,108,255,127,188,100,100,29,95,202,209,62,220,78,43,206,67,242,130>>, <<44,192,4,58,198,147,70,31>>>>,
      <<<<80,0,84,53,147,199,21,253,211,28,97,20,26,189,4,169,159,214,130,44,133,88,133,76,205,227,154,86,132,231,165,109,162,125>>, <<104,37,228,66,46,73,237,33>>>>,
      <<<<80,0,127,255,255,255,255,255,255,255,255,255,255,255,0,0,0,0,0,0,0,0,0,0,0,0,0,0,0,0,0,0,0,0>>, <<4,123,203,56,115,166,130,153>>>>,
      <<<<80,0,127,255,255,255,255,255,255,255,255,255,255,255,255,255,255,255,255,255,255,255,255,255,255,255,255,255,255,255,255,255,255,255>>, <<4,92,220,168,152,105,186,207>>>>,
      <<<<80,0,128,0,0,0,0,0,0,0,0,0,0,0,0,0,0,0,0,0,0,0,0,0,0,0,0,0,0,0,0,0,0,0>>, <<241,214,38,252,148,5,201,205>>>>,
      <<<<80,0,128,0,0,0,0,0,0,0,0,0,0,0,0,0,0,0,0,0,0,0,0,0,0,0,0,0,0,0,0,0,222,117>>, <<167,132,205,35,123,236,50,122>>>>,
      <<<<80,0,162,110,166,217,88,224,30,7,207,59,108,24,199,239,192,103,122,87,51,209,189,255,180,111,168,185,230,26,171,203,123,80>>, <<248,90,224,224,47,177,28,220>>>>,
      <<<<80,0,194,205,207,1,175,113,99,210,217,155,46,200,121,84,228,193,183,53,233,233,234,128,248,119,91,242,157,217,69,126,172,161>>, <<76,105,13,87,140,158,216,199>>>>,
      <<<<80,0,211,239,229,113,12,226,132,174,36,106,159,250,162,11,158,242,195,143,101,219,123,41,193,177,37,168,65,131,223,157,60,169>>, <<160,142,158,107,217,231,181,183>>>>,
      <<<<80,0,212,53,147,199,21,253,211,28,97,20,26,189,4,169,159,214,130,44,133,88,133,76,205,227,154,86,132,231,165,109,162,124>>, <<148,84,114,36,215,230,245,141>>>>,
      <<<<80,0,212,53,147,199,21,253,211,28,97,20,26,189,4,169,159,214,130,44,133,88,133,76,205,227,154,86,132,231,165,109,162,125>>, <<27,98,20,240,167,199,200,5>>>>,
      <<<<80,0,212,53,147,199,21,253,211,28,97,20,26,189,4,169,159,214,130,44,133,88,133,76,205,227,154,86,132,231,165,109,162,253>>, <<8,200,36,94,223,150,232,63>>>>,
      <<<<80,0,212,53,147,199,21,253,211,28,97,20,26,189,5,169,159,214,130,44,133,88,133,76,205,227,154,86,132,231,165,109,162,125>>, <<5,190,7,231,74,185,175,238>>>>,
      <<<<80,0,212,53,147,199,21,253,211,28,97,20,26,189,132,169,159,214,130,44,133,88,133,76,205,227,154,86,132,231,165,109,162,125>>, <<153,208,135,180,117,33,25,47>>>>,
      <<<<80,0,213,53,147,199,21,253,211,28,97,20,26,189,4,169,159,214,130,44,133,88,133,76,205,227,154,86,132,231,165,109,162,125>>, <<58,209,106,107,213,41,242,126>>>>,
      <<<<80,0,254,255,255,255,255,255,255,255,255,255,255,255,0,0,0,0,0,0,0,0,0,0,0,0,0,0,0,0,0,0,0,0>>, <<65,163,184,29,18,219,77,109>>>>,
      <<<<80,0,254,255,255,255,255,255,255,255,255,255,255,255,255,255,255,255,255,255,255,255,255,255,255,255,255,255,255,255,255,255,255,255>>, <<161,255,254,206,36,198,13,248>>>>,
      <<<<80,0,255,255,255,255,255,255,255,255,255,255,255,255,0,0,0,0,0,0,0,0,0,0,0,0,0,0,0,0,0,0,0,0>>, <<228,237,204,245,246,168,76,233>>>>,
      <<<<80,0,255,255,255,255,255,255,255,255,255,255,255,255,0,0,0,0,0,0,0,0,0,0,0,0,0,0,0,0,0,0,0,1>>, <<86,115,37,98,214,114,82,80>>>>,
      <<<<80,0,255,255,255,255,255,255,255,255,255,255,255,255,0,0,0,0,0,0,0,0,0,0,0,0,0,0,0,0,0,0,0,128>>, <<167,143,224,165,60,191,86,202>>>>,
      <<<<80,0,255,255,255,255,255,255,255,255,255,255,255,255,1,0,0,0,0,0,0,0,0,0,0,0,0,0,0,0,0,0,0,0>>, <<155,249,5,30,40,110,53,58>>>>,
      <<<<80,0,255,255,255,255,255,255,255,255,255,255,255,255,127,255,255,255,255,255,255,255,255,255,255,255,255,255,255,255,255,255,255,255>>, <<98,203,24,200,170,108,77,50>>>>,
      <<<<80,0,255,255,255,255,255,255,255,255,255,255,255,255,128,0,0,0,0,0,0,0,0,0,0,0,0,0,0,0,0,0,0,0>>, <<124,118,238,10,69,71,45,191>>>>,
      <<<<80,0,255,255,255,255,255,255,255,255,255,255,255,255,254,255,255,255,255,255,255,255,255,255,255,255,255,255,255,255,255,255,255,255>>, <<82,168,253,168,203,201,241,243>>>>,
      <<<<80,0,255,255,255,255,255,255,255,255,255,255,255,255,255,255,255,255,255,255,255,255,255,255,255,255,255,255,255,255,255,255,255,127>>, <<162,109,97,249,69,191,41,42>>>>,
      <<<<80,0,255,255,255,255,255,255,255,255,255,255,255,255,255,255,255,255,255,255,255,255,255,255,255,255,255,255,255,255,255,255,255,254>>, <<95,87,65,203,77,158,252,196>>>>,
      <<<<80,0,255,255,255,255,255,255,255,255,255,255,255,255,255,255,255,255,255,255,255,255,255,255,255,255,255,255,255,255,255,255,255,255>>, <<201,0,110,85,213,223,21,173>>>>,
      <<<<127,255,0,0,0,0,0,0,0,0,0,0,0,0,0,0,0,0,0,0,0,0,0,0,0,0,0,0,0,0,0,0,0,0>>, <<46,116,255,93,114,127,181,28>>>>,
      <<<<127,255,0,0,0,0,0,0,0,0,0,0,0,0,0,0,0,0,0,0,0,0,0,0,0,0,0,0,0,0,0,0,0,1>>, <<49,79,121,34,6,56,15,209>>>>,
      <<<<127,255,0,0,0,0,0,0,0,0,0,0,0,0,0,0,0,0,0,0,0,0,0,0,0,0,0,0,0,0,0,0,0,128>>, <<143,243,21,116,86,89,88,158>>>>,
      <<<<127,255,0,0,0,0,0,0,0,0,0,0,0,0,0,0,0,0,0,0,0,0,0,0,0,0,0,0,0,0,0,0,222,116>>, <<61,36,118,205,140,10,91,135>>>>,
      <<<<127,255,0,0,0,0,0,0,0,0,0,0,0,0,0,0,0,0,0,0,0,0,0,0,0,0,0,0,0,0,0,0,222,117>>, <<108,146,30,182,127,36,40,34>>>>,
      <<<<127,255,0,0,0,0,0,0,0,0,0,0,0,0,0,0,0,0,0,0,0,0,0,0,0,0,0,0,0,0,0,0,222,245>>, <<182,119,146,77,36,162,105,72>>>>,
      <<<<127,255,0,0,0,0,0,0,0,0,0,0,0,0,1,0,0,0,0,0,0,0,0,0,0,0,0,0,0,0,0,0,0,0>>, <<230,3,3,22,100,196,45,167>>>>,
      <<<<127,255,0,0,0,0,0,0,0,0,0,0,0,0,1,0,0,0,0,0,0,0,0,0,0,0,0,0,0,0,0,0,222,117>>, <<119,8,238,145,14,111,64,7>>>>,
      <<<<127,255,0,0,0,0,0,0,0,0,0,0,0,0,128,0,0,0,0,0,0,0,0,0,0,0,0,0,0,0,0,0,0,0>>, <<45,83,206,188,133,12,193,141>>>>,
      <<<<127,255,0,0,0,0,0,0,0,0,0,0,0,0,128,0,0,0,0,0,0,0,0,0,0,0,0,0,0,0,0,0,222,117>>, <<197,201,183,219,147,116,19,108>>>>,
      <<<<127,255,1,0,0,0,0,0,0,0,0,0,0,0,0,0,0,0,0,0,0,0,0,0,0,0,0,0,0,0,0,0,0,0>>, <<161,133,121,145,52,66,183,194>>>>,
      <<<<127,255,1,0,0,0,0,0,0,0,0,0,0,0,0,0,0,0,0,0,0,0,0,0,0,0,0,0,0,0,0,0,222,117>>, <<216,193,247,6,167,64,31,117>>>>,
      <<<<127,255,51,138,79,29,132,161,138,31,141,164,140,67,53,70,196,155,111,235,10,208,104,251,191,171,15,224,10,10,1,251,164,225>>, <<55,174,166,19,237,166,6,218>>>>,
      <<<<127,255,57,216,19,16,40,140,154,64,140,64,139,32,173,17,108,255,127,188,100,100,29,95,202,209,62,220,78,43,206,67,242,130>>, <<210,19,100,225,235,183,135,82>>>>,
      <<<<127,255,84,53,147,199,21,253,211,28,97,20,26,189,4,169,159,214,130,44,133,88,133,76,205,227,154,86,132,231,165,109,162,125>>, <<100,159,58,103,124,5,19,166>>>>,
      <<<<127,255,127,255,255,255,255,255,255,255,255,255,255,255,0,0,0,0,0,0,0,0,0,0,0,0,0,0,0,0,0,0,0,0>>, <<91,100,15,217,248,103,192,73>>>>,
      <<<<127,255,127,255,255,255,255,255,255,255,255,255,255,255,255,255,255,255,255,255,255,255,255,255,255,255,255,255,255,255,255,255,255,255>>, <<118,231,129,247,26,220,26,127>>>>,
      <<<<127,255,128,0,0,0,0,0,0,0,0,0,0,0,0,0,0,0,0,0,0,0,0,0,0,0,0,0,0,0,0,0,0,0>>, <<78,83,142,168,12,72,58,218>>>>,
      <<<<127,255,128,0,0,0,0,0,0,0,0,0,0,0,0,0,0,0,0,0,0,0,0,0,0,0,0,0,0,0,0,0,222,117>>, <<200,200,117,116,202,16,138,23>>>>,
      <<<<127,255,162,110,166,217,88,224,30,7,207,59,108,24,199,239,192,103,122,87,51,209,189,255,180,111,168,185,230,26,171,203,123,80>>, <<158,14,99,135,97,79,123,220>>>>,
      <<<<127,255,194,205,207,1,175,113,99,210,217,155,46,200,121,84,228,193,183,53,233,233,234,128,248,119,91,242,157,217,69,126,172,161>>, <<78,154,79,203,95,12,100,54>>>>,
      <<<<127,255,211,239,229,113,12,226,132,174,36,106,159,250,162,11,158,242,195,143,101,219,123,41,193,177,37,168,65,131,223,157,60,169>>, <<171,85,38,121,225,242,241,66>>>>,
      <<<<127,255,212,53,147,199,21,253,211,28,97,20,26,189,4,169,159,214,130,44,133,88,133,76,205,227,154,86,132,231,165,109,162,124>>, <<247,207,38,195,119,164,98,195>>>>,
      <<<<127,255,212,53,147,199,21,253,211,28,97,20,26,189,4,169,159,214,130,44,133,88,133,76,205,227,154,86,132,231,165,109,162,125>>, <<159,75,144,116,122,142,90,154>>>>,
      <<<<127,255,212,53,147,199,21,253,211,28,97,20,26,189,4,169,159,214,130,44,133,88,133,76,205,227,154,86,132,231,165,109,162,253>>, <<186,166,71,252,39,224,44,156>>>>,
      <<<<127,255,212,53,147,199,21,253,211,28,97,20,26,189,5,169,159,214,130,44,133,88,133,76,205,227,154,86,132,231,165,109,162,125>>, <<9,32,86,35,137,11,245,199>>>>,
      <<<<127,255,212,53,147,199,21,253,211,28,97,20,26,189,132,169,159,214,130,44,133,88,133,76,205,227,154,86,132,231,165,109,162,125>>, <<131,220,95,132,51,131,46,122>>>>,
      <<<<127,255,213,53,147,199,21,253,211,28,97,20,26,189,4,169,159,214,130,44,133,88,133,76,205,227,154,86,132,231,165,109,162,125>>, <<169,102,31,147,210,195,5,52>>>>,
      <<<<127,255,254,255,255,255,255,255,255,255,255,255,255,255,0,0,0,0,0,0,0,0,0,0,0,0,0,0,0,0,0,0,0,0>>, <<233,147,16,107,21,242,173,203>>>>,
      <<<<127,255,254,255,255,255,255,255,255,255,255,255,255,255,255,255,255,255,255,255,255,255,255,255,255,255,255,255,255,255,255,255,255,255>>, <<169,245,182,80,98,76,108,129>>>>,
      <<<<127,255,255,255,255,255,255,255,255,255,255,255,255,255,0,0,0,0,0,0,0,0,0,0,0,0,0,0,0,0,0,0,0,0>>, <<223,251,7,128,178,20,196,152>>>>,
      <<<<127,255,255,255,255,255,255,255,255,255,255,255,255,255,0,0,0,0,0,0,0,0,0,0,0,0,0,0,0,0,0,0,0,1>>, <<223,189,43,11,224,247,161,40>>>>,
      <<<<127,255,255,255,255,255,255,255,255,255,255,255,255,255,0,0,0,0,0,0,0,0,0,0,0,0,0,0,0,0,0,0,0,128>>, <<161,77,6,101,103,41,47,29>>>>,
      <<<<127,255,255,255,255,255,255,255,255,255,255,255,255,255,1,0,0,0,0,0,0,0,0,0,0,0,0,0,0,0,0,0,0,0>>, <<162,51,198,97,8,206,150,64>>>>,
      <<<<127,255,255,255,255,255,255,255,255,255,255,255,255,255,127,255,255,255,255,255,255,255,255,255,255,255,255,255,255,255,255,255,255,255>>, <<0,49,43,151,46,239,18,124>>>>,
      <<<<127,255,255,255,255,255,255,255,255,255,255,255,255,255,128,0,0,0,0,0,0,0,0,0,0,0,0,0,0,0,0,0,0,0>>, <<31,61,239,226,105,79,83,93>>>>,
      <<<<127,255,255,255,255,255,255,255,255,255,255,255,255,255,254,255,255,255,255,255,255,255,255,255,255,255,255,255,255,255,255,255,255,255>>, <<135,34,13,23,162,173,40,78>>>>,
      <<<<127,255,255,255,255,255,255,255,255,255,255,255,255,255,255,255,255,255,255,255,255,255,255,255,255,255,255,255,255,255,255,255,255,127>>, <<137,144,154,37,80,72,84,36>>>>,
      <<<<127,255,255,255,255,255,255,255,255,255,255,255,255,255,255,255,255,255,255,255,255,255,255,255,255,255,255,255,255,255,255,255,255,254>>, <<171,76,28,153,142,52,244,83>>>>,
      <<<<127,255,255,255,255,255,255,255,255,255,255,255,255,255,255,255,255,255,255,255,255,255,255,255,255,255,255,255,255,255,255,255,255,255>>, <<20,242,152,74,249,2,182,218>>>>,
      <<<<80,0,0,0,0,0,0,0,0,0,0,0,0,0,0,0,0,0,0,0,0,0,0,0,0,0,0,0,0,0,0,0,0,0,7>>, <<226,190,59,170,117,185,49,102>>>>,
      <<<<80,0,0,0,0,0,0,0,0,0,0,0,0,0,0,0,0,0,0,0,0,0,0,0,0,0,0,0,0,0,0,0,222,117,7>>, <<117,121,2,224,57,166,189,21>>>>,
      <<<<80,0,212,53,147,199,21,253,211,28,97,20,26,189,4,169,159,214,130,44,133,88,133,76,205,227,154,86,132,231,165,109,162,125,7>>, <<68,253,203,171,29,166,141,218>>>>,
      <<<<80,0,255,255,255,255,255,255,255,255,255,255,255,255,0,0,0,0,0,0,0,0,0,0,0,0,0,0,0,0,0,0,0,0,7>>, <<243,255,205,112,193,152,27,22>>>>,
      <<<<80,0,255,255,255,255,255,255,255,255,255,255,255,255,255,255,255,255,255,255,255,255,255,255,255,255,255,255,255,255,255,255,255,255,7>>, <<184,19,29,46,104,22,86,246>>>>,
      <<<<127,255,0,0,0,0,0,0,0,0,0,0,0,0,0,0,0,0,0,0,0,0,0,0,0,0,0,0,0,0,0,0,0,0,7>>, <<10,89,214,23,255,162,143,166>>>>,
      <<<<127,255,0,0,0,0,0,0,0,0,0,0,0,0,0,0,0,0,0,0,0,0,0,0,0,0,0,0,0,0,0,0,222,117,7>>, <<86,145,85,229,57,213,93,202>>>>,
      <<<<127,255,212,53,147,199,21,253,211,28,97,20,26,189,4,169,159,214,130,44,133,88,133,76,205,227,154,86,132,231,165,109,162,125,7>>, <<238,13,7,209,43,191,129,167>>>>,
      <<<<127,255,255,255,255,255,255,255,255,255,255,255,255,255,0,0,0,0,0,0,0,0,0,0,0,0,0,0,0,0,0,0,0,0,7>>, <<74,147,234,92,134,56,57,118>>>>,
      <<<<127,255,255,255,255,255,255,255,255,255,255,255,255,255,255,255,255,255,255,255,255,255,255,255,255,255,255,255,255,255,255,255,255,255,7>>, <<69,212,143,247,249,16,21,53>>>>,
      <<<<83,83,53,56,80,82,69,0,0,0,0,0,0,0,0,0,0,0,0,0,0,0,0,0,0,0,0,0,0,0,0,0,0,0,0,0,0,0,0,0>>, <<212,190,114,65,201,60,186,132>>>>,
      <<<<83,83,53,56,80,82,69,0,0,0,0,0,0,0,0,0,0,0,0,0,0,0,0,0,0,0,0,0,0,0,0,0,0,0,0,0,0,0,0,1>>, <<82,229,4,211,249,38,124,146>>>>,
      <<<<83,83,53,56,80,82,69,0,0,0,0,0,0,0,0,0,0,0,0,0,0,0,0,0,0,0,0,0,0,0,0,0,0,0,0,0,0,0,0,128>>, <<168,84,24,217,248,229,0,110>>>>,
      <<<<83,83,53,56,80,82,69,0,0,0,0,0,0,0,0,0,0,0,0,0,0,0,0,0,0,0,0,0,0,0,0,0,0,0,0,0,0,0,222,116>>, <<76,225,240,170,113,87,205,160>>>>,
      <<<<83,83,53,56,80,82,69,0,0,0,0,0,0,0,0,0,0,0,0,0,0,0,0,0,0,0,0,0,0,0,0,0,0,0,0,0,0,0,222,117>>, <<188,207,67,116,126,237,184,255>>>>,
      <<<<83,83,53,56,80,82,69,0,0,0,0,0,0,0,0,0,0,0,0,0,0,0,0,0,0,0,0,0,0,0,0,0,0,0,0,0,0,0,222,245>>, <<206,8,49,248,73,95,202,157>>>>,
      <<<<83,83,53,56,80,82,69,0,0,0,0,0,0,0,0,0,0,0,0,0,1,0,0,0,0,0,0,0,0,0,0,0,0,0,0,0,0,0,0,0>>, <<218,197,40,36,77,61,178,97>>>>,
      <<<<83,83,53,56,80,82,69,0,0,0,0,0,0,0,0,0,0,0,0,0,1,0,0,0,0,0,0,0,0,0,0,0,0,0,0,0,0,0,222,117>>, <<101,111,204,187,235,217,160,152>>>>,
      <<<<83,83,53,56,80,82,69,0,0,0,0,0,0,0,0,0,0,0,0,0,128,0,0,0,0,0,0,0,0,0,0,0,0,0,0,0,0,0,0,0>>, <<218,180,151,190,93,7,103,3>>>>,
      <<<<83,83,53,56,80,82,69,0,0,0,0,0,0,0,0,0,0,0,0,0,128,0,0,0,0,0,0,0,0,0,0,0,0,0,0,0,0,0,222,117>>, <<159,203,223,255,62,231,111,116>>>>,
      <<<<83,83,53,56,80,82,69,0,1,0,0,0,0,0,0,0,0,0,0,0,0,0,0,0,0,0,0,0,0,0,0,0,0,0,0,0,0,0,0,0>>, <<100,64,187,89,165,146,25,86>>>>,
      <<<<83,83,53,56,80,82,69,0,1,0,0,0,0,0,0,0,0,0,0,0,0,0,0,0,0,0,0,0,0,0,0,0,0,0,0,0,0,0,222,117>>, <<191,204,218,179,115,201,201,63>>>>,
      <<<<83,83,53,56,80,82,69,0,51,138,79,29,132,161,138,31,141,164,140,67,53,70,196,155,111,235,10,208,104,251,191,171,15,224,10,10,1,251,164,225>>, <<79,184,219,29,251,76,116,79>>>>,
      <<<<83,83,53,56,80,82,69,0,57,216,19,16,40,140,154,64,140,64,139,32,173,17,108,255,127,188,100,100,29,95,202,209,62,220,78,43,206,67,242,130>>, <<108,234,187,195,108,77,46,226>>>>,
      <<<<83,83,53,56,80,82,69,0,84,53,147,199,21,253,211,28,97,20,26,189,4,169,159,214,130,44,133,88,133,76,205,227,154,86,132,231,165,109,162,125>>, <<228,27,85,180,19,136,96,116>>>>,
      <<<<83,83,53,56,80,82,69,0,127,255,255,255,255,255,255,255,255,255,255,255,0,0,0,0,0,0,0,0,0,0,0,0,0,0,0,0,0,0,0,0>>, <<64,60,124,158,223,244,155,188>>>>,
      <<<<83,83,53,56,80,82,69,0,127,255,255,255,255,255,255,255,255,255,255,255,255,255,255,255,255,255,255,255,255,255,255,255,255,255,255,255,255,255,255,255>>, <<191,49,170,77,244,45,94,53>>>>,
      <<<<83,83,53,56,80,82,69,0,128,0,0,0,0,0,0,0,0,0,0,0,0,0,0,0,0,0,0,0,0,0,0,0,0,0,0,0,0,0,0,0>>, <<62,239,236,51,225,116,14,171>>>>,
      <<<<83,83,53,56,80,82,69,0,128,0,0,0,0,0,0,0,0,0,0,0,0,0,0,0,0,0,0,0,0,0,0,0,0,0,0,0,0,0,222,117>>, <<222,108,215,97,217,162,55,126>>>>,
      <<<<83,83,53,56,80,82,69,0,162,110,166,217,88,224,30,7,207,59,108,24,199,239,192,103,122,87,51,209,189,255,180,111,168,185,230,26,171,203,123,80>>, <<231,73,155,148,58,223,155,208>>>>,
      <<<<83,83,53,56,80,82,69,0,194,205,207,1,175,113,99,210,217,155,46,200,121,84,228,193,183,53,233,233,234,128,248,119,91,242,157,217,69,126,172,161>>, <<126,182,153,98,212,83,175,0>>>>,
      <<<<83,83,53,56,80,82,69,0,211,239,229,113,12,226,132,174,36,106,159,250,162,11,158,242,195,143,101,219,123,41,193,177,37,168,65,131,223,157,60,169>>, <<194,108,30,92,110,116,17,233>>>>,
      <<<<83,83,53,56,80,82,69,0,212,53,147,199,21,253,211,28,97,20,26,189,4,169,159,214,130,44,133,88,133,76,205,227,154,86,132,231,165,109,162,124>>, <<218,104,128,115,212,57,180,241>>>>,
      <<<<83,83,53,56,80,82,69,0,212,53,147,199,21,253,211,28,97,20,26,189,4,169,159,214,130,44,133,88,133,76,205,227,154,86,132,231,165,109,162,125>>, <<127,70,222,94,61,231,153,182>>>>,
      <<<<83,83,53,56,80,82,69,0,212,53,147,199,21,253,211,28,97,20,26,189,4,169,159,214,130,44,133,88,133,76,205,227,154,86,132,231,165,109,162,253>>, <<141,253,128,46,121,250,77,12>>>>,
      <<<<83,83,53,56,80,82,69,0,212,53,147,199,21,253,211,28,97,20,26,189,5,169,159,214,130,44,133,88,133,76,205,227,154,86,132,231,165,109,162,125>>, <<19,89,254,241,10,122,11,97>>>>,
      <<<<83,83,53,56,80,82,69,0,212,53,147,199,21,253,211,28,97,20,26,189,132,169,159,214,130,44,133,88,133,76,205,227,154,86,132,231,165,109,162,125>>, <<122,112,34,202,152,180,212,34>>>>,
      <<<<83,83,53,56,80,82,69,0,213,53,147,199,21,253,211,28,97,20,26,189,4,169,159,214,130,44,133,88,133,76,205,227,154,86,132,231,165,109,162,125>>, <<226,105,189,145,43,100,166,125>>>>,
      <<<<83,83,53,56,80,82,69,0,254,255,255,255,255,255,255,255,255,255,255,255,0,0,0,0,0,0,0,0,0,0,0,0,0,0,0,0,0,0,0,0>>, <<75,250,120,22,251,88,28,72>>>>,
      <<<<83,83,53,56,80,82,69,0,254,255,255,255,255,255,255,255,255,255,255,255,255,255,255,255,255,255,255,255,255,255,255,255,255,255,255,255,255,255,255,255>>, <<222,88,123,153,170,7,174,93>>>>,
      <<<<83,83,53,56,80,82,69,0,255,255,255,255,255,255,255,255,255,255,255,255,0,0,0,0,0,0,0,0,0,0,0,0,0,0,0,0,0,0,0,0>>, <<229,45,42,94,205,19,90,118>>>>,
      <<<<83,83,53,56,80,82,69,0,255,255,255,255,255,255,255,255,255,255,255,255,0,0,0,0,0,0,0,0,0,0,0,0,0,0,0,0,0,0,0,1>>, <<216,206,54,248,196,246,131,123>>>>,
      <<<<83,83,53,56,80,82,69,0,255,255,255,255,255,255,255,255,255,255,255,255,0,0,0,0,0,0,0,0,0,0,0,0,0,0,0,0,0,0,0,128>>, <<28,227,117,62,76,125,80,176>>>>,
      <<<<83,83,53,56,80,82,69,0,255,255,255,255,255,255,255,255,255,255,255,255,1,0,0,0,0,0,0,0,0,0,0,0,0,0,0,0,0,0,0,0>>, <<113,192,208,196,15,35,135,152>>>>,
      <<<<83,83,53,56,80,82,69,0,255,255,255,255,255,255,255,255,255,255,255,255,127,255,255,255,255,255,255,255,255,255,255,255,255,255,255,255,255,255,255,255>>, <<88,229,114,227,95,129,244,157>>>>,
      <<<<83,83,53,56,80,82,69,0,255,255,255,255,255,255,255,255,255,255,255,255,128,0,0,0,0,0,0,0,0,0,0,0,0,0,0,0,0,0,0,0>>, <<32,141,65,177,112,90,131,143>>>>,
      <<<<83,83,53,56,80,82,69,0,255,255,255,255,255,255,255,255,255,255,255,255,254,255,255,255,255,255,255,255,255,255,255,255,255,255,255,255,255,255,255,255>>, <<216,135,4,248,10,77,224,179>>>>,
      <<<<83,83,53,56,80,82,69,0,255,255,255,255,255,255,255,255,255,255,255,255,255,255,255,255,255,255,255,255,255,255,255,255,255,255,255,255,255,255,255,127>>, <<154,49,90,237,105,43,180,147>>>>,
      <<<<83,83,53,56,80,82,69,0,255,255,255,255,255,255,255,255,255,255,255,255,255,255,255,255,255,255,255,255,255,255,255,255,255,255,255,255,255,255,255,254>>, <<55,89,251,69,134,47,118,8>>>>,
      <<<<83,83,53,56,80,82,69,0,255,255,255,255,255,255,255,255,255,255,255,255,255,255,255,255,255,255,255,255,255,255,255,255,255,255,255,255,255,255,255,255>>, <<75,154,62,37,199,160,171,44>>>>,
      <<<<83,83,53,56,80,82,69,42,0,0,0,0,0,0,0,0,0,0,0,0,0,0,0,0,0,0,0,0,0,0,0,0,0,0,0,0,0,0,0,0>>, <<166,0,195,203,62,32,87,0>>>>,
      <<<<83,83,53,56,80,82,69,42,0,0,0,0,0,0,0,0,0,0,0,0,0,0,0,0,0,0,0,0,0,0,0,0,0,0,0,0,0,0,0,1>>, <<201,111,190,253,195,93,125,205>>>>,
      <<<<83,83,53,56,80,82,69,42,0,0,0,0,0,0,0,0,0,0,0,0,0,0,0,0,0,0,0,0,0,0,0,0,0,0,0,0,0,0,0,128>>, <<255,231,24,203,108,160,155,183>>>>,
      <<<<83,83,53,56,80,82,69,42,0,0,0,0,0,0,0,0,0,0,0,0,0,0,0,0,0,0,0,0,0,0,0,0,0,0,0,0,0,0,222,116>>, <<28,135,20,67,177,74,1,89>>>>,
      <<<<83,83,53,56,80,82,69,42,0,0,0,0,0,0,0,0,0,0,0,0,0,0,0,0,0,0,0,0,0,0,0,0,0,0,0,0,0,0,222,117>>, <<239,198,137,50,233,157,22,199>>>>,
      <<<<83,83,53,56,80,82,69,42,0,0,0,0,0,0,0,0,0,0,0,0,0,0,0,0,0,0,0,0,0,0,0,0,0,0,0,0,0,0,222,245>>, <<89,163,150,183,177,112,17,31>>>>,
      <<<<83,83,53,56,80,82,69,42,0,0,0,0,0,0,0,0,0,0,0,0,1,0,0,0,0,0,0,0,0,0,0,0,0,0,0,0,0,0,0,0>>, <<146,124,194,83,243,74,32,103>>>>,
      <<<<83,83,53,56,80,82,69,42,0,0,0,0,0,0,0,0,0,0,0,0,1,0,0,0,0,0,0,0,0,0,0,0,0,0,0,0,0,0,222,117>>, <<86,60,16,108,154,175,188,215>>>>,
      <<<<83,83,53,56,80,82,69,42,0,0,0,0,0,0,0,0,0,0,0,0,128,0,0,0,0,0,0,0,0,0,0,0,0,0,0,0,0,0,0,0>>, <<169,156,136,174,55,224,40,232>>>>,
      <<<<83,83,53,56,80,82,69,42,0,0,0,0,0,0,0,0,0,0,0,0,128,0,0,0,0,0,0,0,0,0,0,0,0,0,0,0,0,0,222,117>>, <<55,61,134,22,23,74,79,171>>>>,
      <<<<83,83,53,56,80,82,69,42,1,0,0,0,0,0,0,0,0,0,0,0,0,0,0,0,0,0,0,0,0,0,0,0,0,0,0,0,0,0,0,0>>, <<106,240,59,97,122,210,132,205>>>>,
      <<<<83,83,53,56,80,82,69,42,1,0,0,0,0,0,0,0,0,0,0,0,0,0,0,0,0,0,0,0,0,0,0,0,0,0,0,0,0,0,222,117>>, <<178,140,156,106,229,133,184,166>>>>,
      <<<<83,83,53,56,80,82,69,42,51,138,79,29,132,161,138,31,141,164,140,67,53,70,196,155,111,235,10,208,104,251,191,171,15,224,10,10,1,251,164,225>>, <<227,147,137,233,14,210,90,196>>>>,
      <<<<83,83,53,56,80,82,69,42,57,216,19,16,40,140,154,64,140,64,139,32,173,17,108,255,127,188,100,100,29,95,202,209,62,220,78,43,206,67,242,130>>, <<200,98,11,187,130,160,116,80>>>>,
      <<<<83,83,53,56,80,82,69,42,84,53,147,199,21,253,211,28,97,20,26,189,4,169,159,214,130,44,133,88,133,76,205,227,154,86,132,231,165,109,162,125>>, <<201,249,159,102,33,178,182,204>>>>,
      <<<<83,83,53,56,80,82,69,42,127,255,255,255,255,255,255,255,255,255,255,255,0,0,0,0,0,0,0,0,0,0,0,0,0,0,0,0,0,0,0,0>>, <<19,221,217,171,21,147,166,3>>>>,
      <<<<83,83,53,56,80,82,69,42,127,255,255,255,255,255,255,255,255,255,255,255,255,255,255,255,255,255,255,255,255,255,255,255,255,255,255,255,255,255,255,255>>, <<3,138,29,225,102,35,139,124>>>>,
      <<<<83,83,53,56,80,82,69,42,128,0,0,0,0,0,0,0,0,0,0,0,0,0,0,0,0,0,0,0,0,0,0,0,0,0,0,0,0,0,0,0>>, <<4,46,17,228,112,139,175,68>>>>,
      <<<<83,83,53,56,80,82,69,42,128,0,0,0,0,0,0,0,0,0,0,0,0,0,0,0,0,0,0,0,0,0,0,0,0,0,0,0,0,0,222,117>>, <<82,170,247,89,56,113,119,239>>>>,
      <<<<83,83,53,56,80,82,69,42,162,110,166,217,88,224,30,7,207,59,108,24,199,239,192,103,122,87,51,209,189,255,180,111,168,185,230,26,171,203,123,80>>, <<151,137,35,54,196,68,187,85>>>>,
      <<<<83,83,53,56,80,82,69,42,194,205,207,1,175,113,99,210,217,155,46,200,121,84,228,193,183,53,233,233,234,128,248,119,91,242,157,217,69,126,172,161>>, <<3,63,71,187,62,169,179,242>>>>,
      <<<<83,83,53,56,80,82,69,42,211,239,229,113,12,226,132,174,36,106,159,250,162,11,158,242,195,143,101,219,123,41,193,177,37,168,65,131,223,157,60,169>>, <<189,193,128,107,36,36,186,22>>>>,
      <<<<83,83,53,56,80,82,69,42,212,53,147,199,21,253,211,28,97,20,26,189,4,169,159,214,130,44,133,88,133,76,205,227,154,86,132,231,165,109,162,124>>, <<87,224,227,177,183,255,33,126>>>>,
      <<<<83,83,53,56,80,82,69,42,212,53,147,199,21,253,211,28,97,20,26,189,4,169,159,214,130,44,133,88,133,76,205,227,154,86,132,231,165,109,162,125>>, <<29,33,224,81,130,170,147,122>>>>,
      <<<<83,83,53,56,80,82,69,42,212,53,147,199,21,253,211,28,97,20,26,189,4,169,159,214,130,44,133,88,133,76,205,227,154,86,132,231,165,109,162,253>>, <<195,188,197,243,58,185,134,56>>>>,
      <<<<83,83,53,56,80,82,69,42,212,53,147,199,21,253,211,28,97,20,26,189,5,169,159,214,130,44,133,88,133,76,205,227,154,86,132,231,165,109,162,125>>, <<195,190,83,42,237,117,215,24>>>>,
      <<<<83,83,53,56,80,82,69,42,212,53,147,199,21,253,211,28,97,20,26,189,132,169,159,214,130,44,133,88,133,76,205,227,154,86,132,231,165,109,162,125>>, <<222,119,143,146,137,45,36,91>>>>,
      <<<<83,83,53,56,80,82,69,42,213,53,147,199,21,253,211,28,97,20,26,189,4,169,159,214,130,44,133,88,133,76,205,227,154,86,132,231,165,109,162,125>>, <<16,87,87,110,213,28,133,17>>>>,
      <<<<83,83,53,56,80,82,69,42,254,255,255,255,255,255,255,255,255,255,255,255,0,0,0,0,0,0,0,0,0,0,0,0,0,0,0,0,0,0,0,0>>, <<55,79,103,157,116,75,132,153>>>>,
      <<<<83,83,53,56,80,82,69,42,254,255,255,255,255,255,255,255,255,255,255,255,255,255,255,255,255,255,255,255,255,255,255,255,255,255,255,255,255,255,255,255>>, <<68,56,143,106,64,198,51,31>>>>,
      <<<<83,83,53,56,80,82,69,42,255,255,255,255,255,255,255,255,255,255,255,255,0,0,0,0,0,0,0,0,0,0,0,0,0,0,0,0,0,0,0,0>>, <<175,215,12,160,189,142,183,76>>>>,
      <<<<83,83,53,56,80,82,69,42,255,255,255,255,255,255,255,255,255,255,255,255,0,0,0,0,0,0,0,0,0,0,0,0,0,0,0,0,0,0,0,1>>, <<33,6,92,12,213,20,163,91>>>>,
      <<<<83,83,53,56,80,82,69,42,255,255,255,255,255,255,255,255,255,255,255,255,0,0,0,0,0,0,0,0,0,0,0,0,0,0,0,0,0,0,0,128>>, <<129,213,87,221,106,192,170,30>>>>,
      <<<<83,83,53,56,80,82,69,42,255,255,255,255,255,255,255,255,255,255,255,255,1,0,0,0,0,0,0,0,0,0,0,0,0,0,0,0,0,0,0,0>>, <<96,21,38,37,68,154,246,21>>>>,
      <<<<83,83,53,56,80,82,69,42,255,255,255,255,255,255,255,255,255,255,255,255,127,255,255,255,255,255,255,255,255,255,255,255,255,255,255,255,255,255,255,255>>, <<161,233,237,200,69,29,11,73>>>>,
      <<<<83,83,53,56,80,82,69,42,255,255,255,255,255,255,255,255,255,255,255,255,128,0,0,0,0,0,0,0,0,0,0,0,0,0,0,0,0,0,0,0>>, <<20,103,77,148,166,36,42,43>>>>,
      <<<<83,83,53,56,80,82,69,42,255,255,255,255,255,255,255,255,255,255,255,255,254,255,255,255,255,255,255,255,255,255,255,255,255,255,255,255,255,255,255,255>>, <<36,89,24,103,231,226,96,34>>>>,
      <<<<83,83,53,56,80,82,69,42,255,255,255,255,255,255,255,255,255,255,255,255,255,255,255,255,255,255,255,255,255,255,255,255,255,255,255,255,255,255,255,127>>, <<59,76,200,166,16,34,185,169>>>>,
      <<<<83,83,53,56,80,82,69,42,255,255,255,255,255,255,255,255,255,255,255,255,255,255,255,255,255,255,255,255,255,255,255,255,255,255,255,255,255,255,255,254>>, <<252,208,146,107,30,50,108,35>>>>,
      <<<<83,83,53,56,80,82,69,42,255,255,255,255,255,255,255,255,255,255,255,255,255,255,255,255,255,255,255,255,255,255,255,255,255,255,255,255,255,255,255,255>>, <<86,80,2,130,26,55,130,44>>>>,
      <<<<83,83,53,56,80,82,69,63,0,0,0,0,0,0,0,0,0,0,0,0,0,0,0,0,0,0,0,0,0,0,0,0,0,0,0,0,0,0,0,0>>, <<95,250,153,165,38,45,235,4>>>>,
      <<<<83,83,53,56,80,82,69,63,0,0,0,0,0,0,0,0,0,0,0,0,0,0,0,0,0,0,0,0,0,0,0,0,0,0,0,0,0,0,0,1>>, <<111,74,28,67,114,50,67,241>>>>,
      <<<<83,83,53,56,80,82,69,63,0,0,0,0,0,0,0,0,0,0,0,0,0,0,0,0,0,0,0,0,0,0,0,0,0,0,0,0,0,0,0,128>>, <<72,69,2,138,43,192,184,163>>>>,
      <<<<83,83,53,56,80,82,69,63,0,0,0,0,0,0,0,0,0,0,0,0,0,0,0,0,0,0,0,0,0,0,0,0,0,0,0,0,0,0,222,116>>, <<201,138,249,121,226,40,162,203>>>>,
      <<<<83,83,53,56,80,82,69,63,0,0,0,0,0,0,0,0,0,0,0,0,0,0,0,0,0,0,0,0,0,0,0,0,0,0,0,0,0,0,222,117>>, <<45,182,45,66,90,190,122,122>>>>,
      <<<<83,83,53,56,80,82,69,63,0,0,0,0,0,0,0,0,0,0,0,0,0,0,0,0,0,0,0,0,0,0,0,0,0,0,0,0,0,0,222,245>>, <<7,40,27,121,183,185,169,37>>>>,
      <<<<83,83,53,56,80,82,69,63,0,0,0,0,0,0,0,0,0,0,0,0,1,0,0,0,0,0,0,0,0,0,0,0,0,0,0,0,0,0,0,0>>, <<61,65,153,215,83,81,149,241>>>>,
      <<<<83,83,53,56,80,82,69,63,0,0,0,0,0,0,0,0,0,0,0,0,1,0,0,0,0,0,0,0,0,0,0,0,0,0,0,0,0,0,222,117>>, <<245,6,206,13,188,223,212,243>>>>,
      <<<<83,83,53,56,80,82,69,63,0,0,0,0,0,0,0,0,0,0,0,0,128,0,0,0,0,0,0,0,0,0,0,0,0,0,0,0,0,0,0,0>>, <<200,135,78,99,150,224,81,106>>>>,
      <<<<83,83,53,56,80,82,69,63,0,0,0,0,0,0,0,0,0,0,0,0,128,0,0,0,0,0,0,0,0,0,0,0,0,0,0,0,0,0,222,117>>, <<222,156,235,183,106,5,223,183>>>>,
      <<<<83,83,53,56,80,82,69,63,1,0,0,0,0,0,0,0,0,0,0,0,0,0,0,0,0,0,0,0,0,0,0,0,0,0,0,0,0,0,0,0>>, <<99,8,161,9,87,248,72,119>>>>,
      <<<<83,83,53,56,80,82,69,63,1,0,0,0,0,0,0,0,0,0,0,0,0,0,0,0,0,0,0,0,0,0,0,0,0,0,0,0,0,0,222,117>>, <<235,229,209,61,89,68,254,241>>>>,
      <<<<83,83,53,56,80,82,69,63,51,138,79,29,132,161,138,31,141,164,140,67,53,70,196,155,111,235,10,208,104,251,191,171,15,224,10,10,1,251,164,225>>, <<47,203,82,63,132,205,191,117>>>>,
      <<<<83,83,53,56,80,82,69,63,57,216,19,16,40,140,154,64,140,64,139,32,173,17,108,255,127,188,100,100,29,95,202,209,62,220,78,43,206,67,242,130>>, <<167,238,87,165,105,197,146,211>>>>,
      <<<<83,83,53,56,80,82,69,63,84,53,147,199,21,253,211,28,97,20,26,189,4,169,159,214,130,44,133,88,133,76,205,227,154,86,132,231,165,109,162,125>>, <<19,114,57,63,50,11,96,213>>>>,
      <<<<83,83,53,56,80,82,69,63,127,255,255,255,255,255,255,255,255,255,255,255,0,0,0,0,0,0,0,0,0,0,0,0,0,0,0,0,0,0,0,0>>, <<190,212,98,154,190,3,177,253>>>>,
      <<<<83,83,53,56,80,82,69,63,127,255,255,255,255,255,255,255,255,255,255,255,255,255,255,255,255,255,255,255,255,255,255,255,255,255,255,255,255,255,255,255>>, <<228,89,44,156,251,255,205,102>>>>,
      <<<<83,83,53,56,80,82,69,63,128,0,0,0,0,0,0,0,0,0,0,0,0,0,0,0,0,0,0,0,0,0,0,0,0,0,0,0,0,0,0,0>>, <<116,85,30,15,254,32,14,54>>>>,
      <<<<83,83,53,56,80,82,69,63,128,0,0,0,0,0,0,0,0,0,0,0,0,0,0,0,0,0,0,0,0,0,0,0,0,0,0,0,0,0,222,117>>, <<176,163,211,88,229,245,165,120>>>>,
      <<<<83,83,53,56,80,82,69,63,162,110,166,217,88,224,30,7,207,59,108,24,199,239,192,103,122,87,51,209,189,255,180,111,168,185,230,26,171,203,123,80>>, <<181,20,232,122,105,47,224,20>>>>,
      <<<<83,83,53,56,80,82,69,63,194,205,207,1,175,113,99,210,217,155,46,200,121,84,228,193,183,53,233,233,234,128,248,119,91,242,157,217,69,126,172,161>>, <<65,56,140,190,250,111,145,83>>>>,
      <<<<83,83,53,56,80,82,69,63,211,239,229,113,12,226,132,174,36,106,159,250,162,11,158,242,195,143,101,219,123,41,193,177,37,168,65,131,223,157,60,169>>, <<56,138,175,162,167,140,244,28>>>>,
      <<<<83,83,53,56,80,82,69,63,212,53,147,199,21,253,211,28,97,20,26,189,4,169,159,214,130,44,133,88,133,76,205,227,154,86,132,231,165,109,162,124>>, <<233,0,131,41,30,200,149,71>>>>,
      <<<<83,83,53,56,80,82,69,63,212,53,147,199,21,253,211,28,97,20,26,189,4,169,159,214,130,44,133,88,133,76,205,227,154,86,132,231,165,109,162,125>>, <<64,17,85,2,86,21,121,169>>>>,
      <<<<83,83,53,56,80,82,69,63,212,53,147,199,21,253,211,28,97,20,26,189,4,169,159,214,130,44,133,88,133,76,205,227,154,86,132,231,165,109,162,253>>, <<33,101,64,222,241,149,92,218>>>>,
      <<<<83,83,53,56,80,82,69,63,212,53,147,199,21,253,211,28,97,20,26,189,5,169,159,214,130,44,133,88,133,76,205,227,154,86,132,231,165,109,162,125>>, <<44,81,208,30,12,200,25,239>>>>,
      <<<<83,83,53,56,80,82,69,63,212,53,147,199,21,253,211,28,97,20,26,189,132,169,159,214,130,44,133,88,133,76,205,227,154,86,132,231,165,109,162,125>>, <<230,241,24,40,207,193,127,108>>>>,
      <<<<83,83,53,56,80,82,69,63,213,53,147,199,21,253,211,28,97,20,26,189,4,169,159,214,130,44,133,88,133,76,205,227,154,86,132,231,165,109,162,125>>, <<184,35,70,8,157,150,103,196>>>>,
      <<<<83,83,53,56,80,82,69,63,254,255,255,255,255,255,255,255,255,255,255,255,0,0,0,0,0,0,0,0,0,0,0,0,0,0,0,0,0,0,0,0>>, <<195,120,218,156,140,189,81,71>>>>,
      <<<<83,83,53,56,80,82,69,63,254,255,255,255,255,255,255,255,255,255,255,255,255,255,255,255,255,255,255,255,255,255,255,255,255,255,255,255,255,255,255,255>>, <<240,118,228,24,156,189,159,110>>>>,
      <<<<83,83,53,56,80,82,69,63,255,255,255,255,255,255,255,255,255,255,255,255,0,0,0,0,0,0,0,0,0,0,0,0,0,0,0,0,0,0,0,0>>, <<104,210,78,118,112,105,155,11>>>>,
      <<<<83,83,53,56,80,82,69,63,255,255,255,255,255,255,255,255,255,255,255,255,0,0,0,0,0,0,0,0,0,0,0,0,0,0,0,0,0,0,0,1>>, <<145,146,19,70,55,235,45,149>>>>,
      <<<<83,83,53,56,80,82,69,63,255,255,255,255,255,255,255,255,255,255,255,255,0,0,0,0,0,0,0,0,0,0,0,0,0,0,0,0,0,0,0,128>>, <<65,70,254,1,137,244,104,73>>>>,
      <<<<83,83,53,56,80,82,69,63,255,255,255,255,255,255,255,255,255,255,255,255,1,0,0,0,0,0,0,0,0,0,0,0,0,0,0,0,0,0,0,0>>, <<245,86,61,31,5,56,145,134>>>>,
      <<<<83,83,53,56,80,82,69,63,255,255,255,255,255,255,255,255,255,255,255,255,127,255,255,255,255,255,255,255,255,255,255,255,255,255,255,255,255,255,255,255>>, <<163,236,46,105,139,68,32,33>>>>,
      <<<<83,83,53,56,80,82,69,63,255,255,255,255,255,255,255,255,255,255,255,255,128,0,0,0,0,0,0,0,0,0,0,0,0,0,0,0,0,0,0,0>>, <<40,93,137,196,118,59,44,225>>>>,
      <<<<83,83,53,56,80,82,69,63,255,255,255,255,255,255,255,255,255,255,255,255,254,255,255,255,255,255,255,255,255,255,255,255,255,255,255,255,255,255,255,255>>, <<15,105,140,203,229,59,247,106>>>>,
      <<<<83,83,53,56,80,82,69,63,255,255,255,255,255,255,255,255,255,255,255,255,255,255,255,255,255,255,255,255,255,255,255,255,255,255,255,255,255,255,255,127>>, <<230,251,20,205,186,149,66,107>>>>,
      <<<<83,83,53,56,80,82,69,63,255,255,255,255,255,255,255,255,255,255,255,255,255,255,255,255,255,255,255,255,255,255,255,255,255,255,255,255,255,255,255,254>>, <<124,123,41,7,29,151,254,187>>>>,
      <<<<83,83,53,56,80,82,69,63,255,255,255,255,255,255,255,255,255,255,255,255,255,255,255,255,255,255,255,255,255,255,255,255,255,255,255,255,255,255,255,255>>, <<213,5,224,143,236,33,75,71>>>>,
      <<<<83,83,53,56,80,82,69,0,0,0,0,0,0,0,0,0,0,0,0,0,0,0,0,0,0,0,0,0,0,0,0,0,0,0,0,0,0,0,0,0,7>>, <<248,107,20,180,37,39,183,254>>>>,
      <<<<83,83,53,56,80,82,69,0,0,0,0,0,0,0,0,0,0,0,0,0,0,0,0,0,0,0,0,0,0,0,0,0,0,0,0,0,0,0,222,117,7>>, <<217,99,123,56,204,164,90,25>>>>,
      <<<<83,83,53,56,80,82,69,0,212,53,147,199,21,253,211,28,97,20,26,189,4,169,159,214,130,44,133,88,133,76,205,227,154,86,132,231,165,109,162,125,7>>, <<81,78,188,6,131,120,148,0>>>>,
      <<<<83,83,53,56,80,82,69,0,255,255,255,255,255,255,255,255,255,255,255,255,0,0,0,0,0,0,0,0,0,0,0,0,0,0,0,0,0,0,0,0,7>>, <<229,131,24,117,104,185,210,171>>>>,
      <<<<83,83,53,56,80,82,69,0,255,255,255,255,255,255,255,255,255,255,255,255,255,255,255,255,255,255,255,255,255,255,255,255,255,255,255,255,255,255,255,255,7>>, <<219,13,17,164,25,149,97,56>>>>,
      <<<<83,83,53,56,80,82,69,42,0,0,0,0,0,0,0,0,0,0,0,0,0,0,0,0,0,0,0,0,0,0,0,0,0,0,0,0,0,0,0,0,7>>, <<55,26,47,119,76,7,236,18>>>>,
      <<<<83,83,53,56,80,82,69,42,0,0,0,0,0,0,0,0,0,0,0,0,0,0,0,0,0,0,0,0,0,0,0,0,0,0,0,0,0,0,222,117,7>>, <<39,138,22,194,9,81,77,145>>>>,
      <<<<83,83,53,56,80,82,69,42,212,53,147,199,21,253,211,28,97,20,26,189,4,169,159,214,130,44,133,88,133,76,205,227,154,86,132,231,165,109,162,125,7>>, <<46,69,27,155,165,194,239,198>>>>,
      <<<<83,83,53,56,80,82,69,42,255,255,255,255,255,255,255,255,255,255,255,255,0,0,0,0,0,0,0,0,0,0,0,0,0,0,0,0,0,0,0,0,7>>, <<89,160,36,140,133,221,23,7>>>>,
      <<<<83,83,53,56,80,82,69,42,255,255,255,255,255,255,255,255,255,255,255,255,255,255,255,255,255,255,255,255,255,255,255,255,255,255,255,255,255,255,255,255,7>>, <<71,89,200,244,63,127,66,246>>>>,
      <<<<83,83,53,56,80,82,69,63,0,0,0,0,0,0,0,0,0,0,0,0,0,0,0,0,0,0,0,0,0,0,0,0,0,0,0,0,0,0,0,0,7>>, <<209,118,254,206,247,110,0,17>>>>,
      <<<<83,83,53,56,80,82,69,63,0,0,0,0,0,0,0,0,0,0,0,0,0,0,0,0,0,0,0,0,0,0,0,0,0,0,0,0,0,0,222,117,7>>, <<161,87,131,209,126,179,159,246>>>>,
      <<<<83,83,53,56,80,82,69,63,212,53,147,199,21,253,211,28,97,20,26,189,4,169,159,214,130,44,133,88,133,76,205,227,154,86,132,231,165,109,162,125,7>>, <<158,205,161,173,45,95,170,133>>>>,
      <<<<83,83,53,56,80,82,69,63,255,255,255,255,255,255,255,255,255,255,255,255,0,0,0,0,0,0,0,0,0,0,0,0,0,0,0,0,0,0,0,0,7>>, <<207,94,227,125,178,209,20,180>>>>,
      <<<<83,83,53,56,80,82,69,63,255,255,255,255,255,255,255,255,255,255,255,255,255,255,255,255,255,255,255,255,255,255,255,255,255,255,255,255,255,255,255,255,7>>, <<53,210,90,253,177,124,204,47>>>>,
      <<<<83,83,53,56,80,82,69,80,0,0,0,0,0,0,0,0,0,0,0,0,0,0,0,0,0,0,0,0,0,0,0,0,0,0,0,0,0,0,0,0,0>>, <<213,121,112,221,172,208,251,179>>>>,
      <<<<83,83,53,56,80,82,69,80,0,0,0,0,0,0,0,0,0,0,0,0,0,0,0,0,0,0,0,0,0,0,0,0,0,0,0,0,0,0,0,0,1>>, <<244,109,167,168,255,71,38,251>>>>,
      <<<<83,83,53,56,80,82,69,80,0,0,0,0,0,0,0,0,0,0,0,0,0,0,0,0,0,0,0,0,0,0,0,0,0,0,0,0,0,0,0,0,128>>, <<27,205,79,39,29,245,39,81>>>>,
      <<<<83,83,53,56,80,82,69,80,0,0,0,0,0,0,0,0,0,0,0,0,0,0,0,0,0,0,0,0,0,0,0,0,0,0,0,0,0,0,0,222,116>>, <<78,120,64,39,246,138,215,201>>>>,
      <<<<83,83,53,56,80,82,69,80,0,0,0,0,0,0,0,0,0,0,0,0,0,0,0,0,0,0,0,0,0,0,0,0,0,0,0,0,0,0,0,222,117>>, <<179,178,233,161,122,47,9,149>>>>,
      <<<<83,83,53,56,80,82,69,80,0,0,0,0,0,0,0,0,0,0,0,0,0,0,0,0,0,0,0,0,0,0,0,0,0,0,0,0,0,0,0,222,245>>, <<105,66,68,197,16,215,113,97>>>>,
      <<<<83,83,53,56,80,82,69,80,0,0,0,0,0,0,0,0,0,0,0,0,0,1,0,0,0,0,0,0,0,0,0,0,0,0,0,0,0,0,0,0,0>>, <<150,130,107,193,94,31,174,134>>>>,
      <<<<83,83,53,56,80,82,69,80,0,0,0,0,0,0,0,0,0,0,0,0,0,1,0,0,0,0,0,0,0,0,0,0,0,0,0,0,0,0,0,222,117>>, <<61,87,209,170,197,218,203,206>>>>,
      <<<<83,83,53,56,80,82,69,80,0,0,0,0,0,0,0,0,0,0,0,0,0,128,0,0,0,0,0,0,0,0,0,0,0,0,0,0,0,0,0,0,0>>, <<18,13,132,250,70,83,47,53>>>>,
      <<<<83,83,53,56,80,82,69,80,0,0,0,0,0,0,0,0,0,0,0,0,0,128,0,0,0,0,0,0,0,0,0,0,0,0,0,0,0,0,0,222,117>>, <<162,171,175,249,12,244,231,176>>>>,
      <<<<83,83,53,56,80,82,69,80,0,1,0,0,0,0,0,0,0,0,0,0,0,0,0,0,0,0,0,0,0,0,0,0,0,0,0,0,0,0,0,0,0>>, <<238,88,237,151,43,21,205,164>>>>,
      <<<<83,83,53,56,80,82,69,80,0,1,0,0,0,0,0,0,0,0,0,0,0,0,0,0,0,0,0,0,0,0,0,0,0,0,0,0,0,0,0,222,117>>, <<18,216,106,81,210,29,254,4>>>>,
      <<<<83,83,53,56,80,82,69,80,0,51,138,79,29,132,161,138,31,141,164,140,67,53,70,196,155,111,235,10,208,104,251,191,171,15,224,10,10,1,251,164,225>>, <<184,27,107,22,197,78,164,192>>>>,
      <<<<83,83,53,56,80,82,69,80,0,57,216,19,16,40,140,154,64,140,64,139,32,173,17,108,255,127,188,100,100,29,95,202,209,62,220,78,43,206,67,242,130>>, <<206,81,191,124,84,145,78,72>>>>,
      <<<<83,83,53,56,80,82,69,80,0,84,53,147,199,21,253,211,28,97,20,26,189,4,169,159,214,130,44,133,88,133,76,205,227,154,86,132,231,165,109,162,125>>, <<73,163,70,177,184,79,0,251>>>>,
      <<<<83,83,53,56,80,82,69,80,0,127,255,255,255,255,255,255,255,255,255,255,255,0,0,0,0,0,0,0,0,0,0,0,0,0,0,0,0,0,0,0,0>>, <<175,138,63,253,130,11,224,209>>>>,
      <<<<83,83,53,56,80,82,69,80,0,127,255,255,255,255,255,255,255,255,255,255,255,255,255,255,255,255,255,255,255,255,255,255,255,255,255,255,255,255,255,255,255>>, <<64,221,11,219,27,210,10,175>>>>,
      <<<<83,83,53,56,80,82,69,80,0,128,0,0,0,0,0,0,0,0,0,0,0,0,0,0,0,0,0,0,0,0,0,0,0,0,0,0,0,0,0,0,0>>, <<124,159,234,245,198,38,160,67>>>>,
      <<<<83,83,53,56,80,82,69,80,0,128,0,0,0,0,0,0,0,0,0,0,0,0,0,0,0,0,0,0,0,0,0,0,0,0,0,0,0,0,0,222,117>>, <<0,171,233,23,78,92,213,139>>>>,
      <<<<83,83,53,56,80,82,69,80,0,162,110,166,217,88,224,30,7,207,59,108,24,199,239,192,103,122,87,51,209,189,255,180,111,168,185,230,26,171,203,123,80>>, <<31,215,198,3,146,239,12,175>>>>,
      <<<<83,83,53,56,80,82,69,80,0,194,205,207,1,175,113,99,210,217,155,46,200,121,84,228,193,183,53,233,233,234,128,248,119,91,242,157,217,69,126,172,161>>, <<150,99,241,34,207,96,154,101>>>>,
      <<<<83,83,53,56,80,82,69,80,0,211,239,229,113,12,226,132,174,36,106,159,250,162,11,158,242,195,143,101,219,123,41,193,177,37,168,65,131,223,157,60,169>>, <<14,145,2,8,71,83,246,186>>>>,
      <<<<83,83,53,56,80,82,69,80,0,212,53,147,199,21,253,211,28,97,20,26,189,4,169,159,214,130,44,133,88,133,76,205,227,154,86,132,231,165,109,162,124>>, <<242,58,229,90,23,238,165,51>>>>,
      <<<<83,83,53,56,80,82,69,80,0,212,53,147,199,21,253,211,28,97,20,26,189,4,169,159,214,130,44,133,88,133,76,205,227,154,86,132,231,165,109,162,125>>, <<220,179,138,183,50,216,25,28>>>>,
      <<<<83,83,53,56,80,82,69,80,0,212,53,147,199,21,253,211,28,97,20,26,189,4,169,159,214,130,44,133,88,133,76,205,227,154,86,132,231,165,109,162,253>>, <<54,145,238,3,171,35,210,236>>>>,
      <<<<83,83,53,56,80,82,69,80,0,212,53,147,199,21,253,211,28,97,20,26,189,5,169,159,214,130,44,133,88,133,76,205,227,154,86,132,231,165,109,162,125>>, <<122,56,52,27,213,238,246,201>>>>,
      <<<<83,83,53,56,80,82,69,80,0,212,53,147,199,21,253,211,28,97,20,26,189,132,169,159,214,130,44,133,88,133,76,205,227,154,86,132,231,165,109,162,125>>, <<154,142,170,190,119,0,30,139>>>>,
      <<<<83,83,53,56,80,82,69,80,0,213,53,147,199,21,253,211,28,97,20,26,189,4,169,159,214,130,44,133,88,133,76,205,227,154,86,132,231,165,109,162,125>>, <<125,46,213,218,33,238,31,146>>>>,
      <<<<83,83,53,56,80,82,69,80,0,254,255,255,255,255,255,255,255,255,255,255,255,0,0,0,0,0,0,0,0,0,0,0,0,0,0,0,0,0,0,0,0>>, <<187,126,220,225,1,219,158,20>>>>,
      <<<<83,83,53,56,80,82,69,80,0,254,255,255,255,255,255,255,255,255,255,255,255,255,255,255,255,255,255,255,255,255,255,255,255,255,255,255,255,255,255,255,255>>, <<167,25,242,175,216,156,199,219>>>>,
      <<<<83,83,53,56,80,82,69,80,0,255,255,255,255,255,255,255,255,255,255,255,255,0,0,0,0,0,0,0,0,0,0,0,0,0,0,0,0,0,0,0,0>>, <<225,160,206,115,163,54,153,250>>>>,
      <<<<83,83,53,56,80,82,69,80,0,255,255,255,255,255,255,255,255,255,255,255,255,0,0,0,0,0,0,0,0,0,0,0,0,0,0,0,0,0,0,0,1>>, <<72,165,231,118,133,61,78,85>>>>,
      <<<<83,83,53,56,80,82,69,80,0,255,255,255,255,255,255,255,255,255,255,255,255,0,0,0,0,0,0,0,0,0,0,0,0,0,0,0,0,0,0,0,128>>, <<99,103,238,160,52,15,25,142>>>>,
      <<<<83,83,53,56,80,82,69,80,0,255,255,255,255,255,255,255,255,255,255,255,255,1,0,0,0,0,0,0,0,0,0,0,0,0,0,0,0,0,0,0,0>>, <<253,74,241,109,118,185,171,25>>>>,
      <<<<83,83,53,56,80,82,69,80,0,255,255,255,255,255,255,255,255,255,255,255,255,127,255,255,255,255,255,255,255,255,255,255,255,255,255,255,255,255,255,255,255>>, <<219,118,196,230,161,82,130,198>>>>,
      <<<<83,83,53,56,80,82,69,80,0,255,255,255,255,255,255,255,255,255,255,255,255,128,0,0,0,0,0,0,0,0,0,0,0,0,0,0,0,0,0,0,0>>, <<242,93,199,181,125,155,94,12>>>>,
      <<<<83,83,53,56,80,82,69,80,0,255,255,255,255,255,255,255,255,255,255,255,255,254,255,255,255,255,255,255,255,255,255,255,255,255,255,255,255,255,255,255,255>>, <<138,1,40,166,57,113,125,75>>>>,
      <<<<83,83,53,56,80,82,69,80,0,255,255,255,255,255,255,255,255,255,255,255,255,255,255,255,255,255,255,255,255,255,255,255,255,255,255,255,255,255,255,255,127>>, <<227,4,224,30,58,53,89,139>>>>,
      <<<<83,83,53,56,80,82,69,80,0,255,255,255,255,255,255,255,255,255,255,255,255,255,255,255,255,255,255,255,255,255,255,255,255,255,255,255,255,255,255,255,254>>, <<41,242,191,89,191,160,232,160>>>>,
      <<<<83,83,53,56,80,82,69,80,0,255,255,255,255,255,255,255,255,255,255,255,255,255,255,255,255,255,255,255,255,255,255,255,255,255,255,255,255,255,255,255,255>>, <<149,150,106,80,131,203,157,233>>>>,
      <<<<83,83,53,56,80,82,69,127,255,0,0,0,0,0,0,0,0,0,0,0,0,0,0,0,0,0,0,0,0,0,0,0,0,0,0,0,0,0,0,0,0>>, <<252,90,110,10,3,35,96,147>>>>,
      <<<<83,83,53,56,80,82,69,127,255,0,0,0,0,0,0,0,0,0,0,0,0,0,0,0,0,0,0,0,0,0,0,0,0,0,0,0,0,0,0,0,1>>, <<239,74,36,141,243,185,170,141>>>>,
      <<<<83,83,53,56,80,82,69,127,255,0,0,0,0,0,0,0,0,0,0,0,0,0,0,0,0,0,0,0,0,0,0,0,0,0,0,0,0,0,0,0,128>>, <<228,151,218,195,77,26,8,49>>>>,
      <<<<83,83,53,56,80,82,69,127,255,0,0,0,0,0,0,0,0,0,0,0,0,0,0,0,0,0,0,0,0,0,0,0,0,0,0,0,0,0,0,222,116>>, <<115,15,27,182,195,48,224,169>>>>,
      <<<<83,83,53,56,80,82,69,127,255,0,0,0,0,0,0,0,0,0,0,0,0,0,0,0,0,0,0,0,0,0,0,0,0,0,0,0,0,0,0,222,117>>, <<39,127,55,244,93,131,103,48>>>>,
      <<<<83,83,53,56,80,82,69,127,255,0,0,0,0,0,0,0,0,0,0,0,0,0,0,0,0,0,0,0,0,0,0,0,0,0,0,0,0,0,0,222,245>>, <<176,186,208,114,237,74,56,254>>>>,
      <<<<83,83,53,56,80,82,69,127,255,0,0,0,0,0,0,0,0,0,0,0,0,1,0,0,0,0,0,0,0,0,0,0,0,0,0,0,0,0,0,0,0>>, <<39,50,39,246,48,50,75,152>>>>,
      <<<<83,83,53,56,80,82,69,127,255,0,0,0,0,0,0,0,0,0,0,0,0,1,0,0,0,0,0,0,0,0,0,0,0,0,0,0,0,0,0,222,117>>, <<208,210,213,20,70,186,6,146>>>>,
      <<<<83,83,53,56,80,82,69,127,255,0,0,0,0,0,0,0,0,0,0,0,0,128,0,0,0,0,0,0,0,0,0,0,0,0,0,0,0,0,0,0,0>>, <<227,116,160,96,119,72,206,11>>>>,
      <<<<83,83,53,56,80,82,69,127,255,0,0,0,0,0,0,0,0,0,0,0,0,128,0,0,0,0,0,0,0,0,0,0,0,0,0,0,0,0,0,222,117>>, <<248,178,203,14,76,115,45,177>>>>,
      <<<<83,83,53,56,80,82,69,127,255,1,0,0,0,0,0,0,0,0,0,0,0,0,0,0,0,0,0,0,0,0,0,0,0,0,0,0,0,0,0,0,0>>, <<154,71,48,131,101,190,53,146>>>>,
      <<<<83,83,53,56,80,82,69,127,255,1,0,0,0,0,0,0,0,0,0,0,0,0,0,0,0,0,0,0,0,0,0,0,0,0,0,0,0,0,0,222,117>>, <<167,182,20,248,97,97,208,172>>>>,
      <<<<83,83,53,56,80,82,69,127,255,51,138,79,29,132,161,138,31,141,164,140,67,53,70,196,155,111,235,10,208,104,251,191,171,15,224,10,10,1,251,164,225>>, <<14,29,131,169,7,121,162,230>>>>,
      <<<<83,83,53,56,80,82,69,127,255,57,216,19,16,40,140,154,64,140,64,139,32,173,17,108,255,127,188,100,100,29,95,202,209,62,220,78,43,206,67,242,130>>, <<81,219,65,124,124,88,129,16>>>>,
      <<<<83,83,53,56,80,82,69,127,255,84,53,147,199,21,253,211,28,97,20,26,189,4,169,159,214,130,44,133,88,133,76,205,227,154,86,132,231,165,109,162,125>>, <<242,252,234,248,88,95,38,124>>>>,
      <<<<83,83,53,56,80,82,69,127,255,127,255,255,255,255,255,255,255,255,255,255,255,0,0,0,0,0,0,0,0,0,0,0,0,0,0,0,0,0,0,0,0>>, <<167,14,211,67,49,25,224,43>>>>,
      <<<<83,83,53,56,80,82,69,127,255,127,255,255,255,255,255,255,255,255,255,255,255,255,255,255,255,255,255,255,255,255,255,255,255,255,255,255,255,255,255,255,255>>, <<193,150,248,110,95,81,187,21>>>>,
      <<<<83,83,53,56,80,82,69,127,255,128,0,0,0,0,0,0,0,0,0,0,0,0,0,0,0,0,0,0,0,0,0,0,0,0,0,0,0,0,0,0,0>>, <<215,79,174,95,194,18,34,211>>>>,
      <<<<83,83,53,56,80,82,69,127,255,128,0,0,0,0,0,0,0,0,0,0,0,0,0,0,0,0,0,0,0,0,0,0,0,0,0,0,0,0,0,222,117>>, <<219,201,68,231,24,146,61,104>>>>,
      <<<<83,83,53,56,80,82,69,127,255,162,110,166,217,88,224,30,7,207,59,108,24,199,239,192,103,122,87,51,209,189,255,180,111,168,185,230,26,171,203,123,80>>, <<21,14,27,248,123,2,188,5>>>>,
      <<<<83,83,53,56,80,82,69,127,255,194,205,207,1,175,113,99,210,217,155,46,200,121,84,228,193,183,53,233,233,234,128,248,119,91,242,157,217,69,126,172,161>>, <<134,21,34,33,83,45,55,122>>>>,
      <<<<83,83,53,56,80,82,69,127,255,211,239,229,113,12,226,132,174,36,106,159,250,162,11,158,242,195,143,101,219,123,41,193,177,37,168,65,131,223,157,60,169>>, <<72,202,70,40,97,216,91,0>>>>,
      <<<<83,83,53,56,80,82,69,127,255,212,53,147,199,21,253,211,28,97,20,26,189,4,169,159,214,130,44,133,88,133,76,205,227,154,86,132,231,165,109,162,124>>, <<139,249,173,103,222,184,168,211>>>>,
      <<<<83,83,53,56,80,82,69,127,255,212,53,147,199,21,253,211,28,97,20,26,189,4,169,159,214,130,44,133,88,133,76,205,227,154,86,132,231,165,109,162,125>>, <<58,183,180,44,152,2,29,196>>>>,
      <<<<83,83,53,56,80,82,69,127,255,212,53,147,199,21,253,211,28,97,20,26,189,4,169,159,214,130,44,133,88,133,76,205,227,154,86,132,231,165,109,162,253>>, <<250,76,161,175,246,164,56,246>>>>,
      <<<<83,83,53,56,80,82,69,127,255,212,53,147,199,21,253,211,28,97,20,26,189,5,169,159,214,130,44,133,88,133,76,205,227,154,86,132,231,165,109,162,125>>, <<205,198,37,6,162,167,173,247>>>>,
      <<<<83,83,53,56,80,82,69,127,255,212,53,147,199,21,253,211,28,97,20,26,189,132,169,159,214,130,44,133,88,133,76,205,227,154,86,132,231,165,109,162,125>>, <<85,5,198,20,205,105,38,198>>>>,
      <<<<83,83,53,56,80,82,69,127,255,213,53,147,199,21,253,211,28,97,20,26,189,4,169,159,214,130,44,133,88,133,76,205,227,154,86,132,231,165,109,162,125>>, <<251,232,55,194,78,58,98,23>>>>,
      <<<<83,83,53,56,80,82,69,127,255,254,255,255,255,255,255,255,255,255,255,255,255,0,0,0,0,0,0,0,0,0,0,0,0,0,0,0,0,0,0,0,0>>, <<70,59,235,10,141,71,208,233>>>>,
      <<<<83,83,53,56,80,82,69,127,255,254,255,255,255,255,255,255,255,255,255,255,255,255,255,255,255,255,255,255,255,255,255,255,255,255,255,255,255,255,255,255,255>>, <<149,143,184,134,193,91,110,151>>>>,
      <<<<83,83,53,56,80,82,69,127,255,255,255,255,255,255,255,255,255,255,255,255,255,0,0,0,0,0,0,0,0,0,0,0,0,0,0,0,0,0,0,0,0>>, <<172,198,197,143,144,186,149,91>>>>,
      <<<<83,83,53,56,80,82,69,127,255,255,255,255,255,255,255,255,255,255,255,255,255,0,0,0,0,0,0,0,0,0,0,0,0,0,0,0,0,0,0,0,1>>, <<109,53,186,135,192,188,239,18>>>>,
      <<<<83,83,53,56,80,82,69,127,255,255,255,255,255,255,255,255,255,255,255,255,255,0,0,0,0,0,0,0,0,0,0,0,0,0,0,0,0,0,0,0,128>>, <<81,220,129,64,169,37,201,102>>>>,
      <<<<83,83,53,56,80,82,69,127,255,255,255,255,255,255,255,255,255,255,255,255,255,1,0,0,0,0,0,0,0,0,0,0,0,0,0,0,0,0,0,0,0>>, <<248,139,132,203,173,106,136,38>>>>,
      <<<<83,83,53,56,80,82,69,127,255,255,255,255,255,255,255,255,255,255,255,255,255,127,255,255,255,255,255,255,255,255,255,255,255,255,255,255,255,255,255,255,255>>, <<130,1,97,184,27,161,98,250>>>>,
      <<<<83,83,53,56,80,82,69,127,255,255,255,255,255,255,255,255,255,255,255,255,255,128,0,0,0,0,0,0,0,0,0,0,0,0,0,0,0,0,0,0,0>>, <<201,243,73,11,170,242,80,190>>>>,
      <<<<83,83,53,56,80,82,69,127,255,255,255,255,255,255,255,255,255,255,255,255,255,254,255,255,255,255,255,255,255,255,255,255,255,255,255,255,255,255,255,255,255>>, <<87,173,212,113,180,17,77,170>>>>,
      <<<<83,83,53,56,80,82,69,127,255,255,255,255,255,255,255,255,255,255,255,255,255,255,255,255,255,255,255,255,255,255,255,255,255,255,255,255,255,255,255,255,127>>, <<181,93,106,208,18,81,162,106>>>>,
      <<<<83,83,53,56,80,82,69,127,255,255,255,255,255,255,255,255,255,255,255,255,255,255,255,255,255,255,255,255,255,255,255,255,255,255,255,255,255,255,255,255,254>>, <<171,95,99,114,25,9,166,147>>>>,
      <<<<83,83,53,56,80,82,69,127,255,255,255,255,255,255,255,255,255,255,255,255,255,255,255,255,255,255,255,255,255,255,255,255,255,255,255,255,255,255,255,255,255>>, <<115,109,202,136,226,185,188,92>>>>,
      <<<<83,83,53,56,80,82,69,80,0,0,0,0,0,0,0,0,0,0,0,0,0,0,0,0,0,0,0,0,0,0,0,0,0,0,0,0,0,0,0,0,0,7>>, <<122,144,89,250,157,126,151,223>>>>,
      <<<<83,83,53,56,80,82,69,80,0,0,0,0,0,0,0,0,0,0,0,0,0,0,0,0,0,0,0,0,0,0,0,0,0,0,0,0,0,0,0,222,117,7>>, <<242,246,208,79,204,108,232,37>>>>,
      <<<<83,83,53,56,80,82,69,80,0,212,53,147,199,21,253,211,28,97,20,26,189,4,169,159,214,130,44,133,88,133,76,205,227,154,86,132,231,165,109,162,125,7>>, <<214,115,47,214,201,147,206,251>>>>,
      <<<<83,83,53,56,80,82,69,80,0,255,255,255,255,255,255,255,255,255,255,255,255,0,0,0,0,0,0,0,0,0,0,0,0,0,0,0,0,0,0,0,0,7>>, <<100,30,195,207,71,19,139,196>>>>,
      <<<<83,83,53,56,80,82,69,80,0,255,255,255,255,255,255,255,255,255,255,255,255,255,255,255,255,255,255,255,255,255,255,255,255,255,255,255,255,255,255,255,255,7>>, <<152,153,150,184,101,25,51,95>>>>,
      <<<<83,83,53,56,80,82,69,127,255,0,0,0,0,0,0,0,0,0,0,0,0,0,0,0,0,0,0,0,0,0,0,0,0,0,0,0,0,0,0,0,0,7>>, <<8,53,45,92,73,234,225,161>>>>,
      <<<<83,83,53,56,80,82,69,127,255,0,0,0,0,0,0,0,0,0,0,0,0,0,0,0,0,0,0,0,0,0,0,0,0,0,0,0,0,0,0,222,117,7>>, <<11,94,3,148,113,75,184,107>>>>,
      <<<<83,83,53,56,80,82,69,127,255,212,53,147,199,21,253,211,28,97,20,26,189,4,169,159,214,130,44,133,88,133,76,205,227,154,86,132,231,165,109,162,125,7>>, <<33,49,122,248,39,100,217,201>>>>,
      <<<<83,83,53,56,80,82,69,127,255,255,255,255,255,255,255,255,255,255,255,255,255,0,0,0,0,0,0,0,0,0,0,0,0,0,0,0,0,0,0,0,0,7>>, <<160,148,168,100,247,192,216,61>>>>,
      <<<<83,83,53,56,80,82,69,127,255,255,255,255,255,255,255,255,255,255,255,255,255,255,255,255,255,255,255,255,255,255,255,255,255,255,255,255,255,255,255,255,255,7>>, <<110,70,128,37,199,49,126,159>>>>
    >>

(* ------------------------------------------------------------------ *)
(* The SS58 functions of the substrate library the scripts import      *)
(* ------------------------------------------------------------------ *)

\* hashlib.blake2b(data, digest_size).digest(), by its values at the inputs the
\* model draws.  For digest_size 64 the table holds the first 8 bytes of the
\* digest, the longest checksum ss58_decode ever compares.
blake2b(data, digest_size) ==
    LET table == IF digest_size = 32 THEN Blake2b256Table ELSE Blake2b512Table
    IN  table[CHOOSE i \in 1..Len(table) : table[i][1] = data][2]

\* b'SS58PRE'
checksum_prefix == <<83, 83, 53, 56, 80, 82, 69>>

\* The formats 46 and 47 are reserved.
ReservedFormats == {46, 47}

\* The largest format a two-byte prefix can carry.
MaxSs58Format == 16383

\* The largest format written as a single byte.
MaxOneByteFormat == 63

\* The public key length Keypair requires.
PublicKeyLen == 32

\* The number of trailing public-key bytes ss58_to_h160 keeps.
H160Len == 20

\* ss58_format absent (None).
NoFormat == -1

\* The prefix bytes of a format: one byte below 64, otherwise two bytes with
\* bit 6 of the first one set.
ss58_format_bytes(ss58_format) ==
    IF ss58_format <= MaxOneByteFormat THEN <<ss58_format>>
    ELSE <<((ss58_format % 256) \div 4) + 64,
           (ss58_format \div 256) + (ss58_format % 4) * 64>>

\* ss58_encode(address_bytes, ss58_format): base58 of prefix ++ address ++ checksum,
\* the checksum being the head of blake2b(b'SS58PRE' ++ prefix ++ address).
ss58_encode(address_bytes, ss58_format) ==
    IF ss58_format < 0 \/ ss58_format > MaxSs58Format \/ ss58_format \in ReservedFormats
    THEN Raised("ValueError", <<"Invalid value for ss58_format">>)
    ELSE IF Len(address_bytes) \notin {32, 33, 1, 2, 4, 8}
    THEN Raised("ValueError", <<"Invalid length for address">>)
    ELSE LET checksum_length == IF Len(address_bytes) \in {32, 33} THEN 2 ELSE 1
             input_bytes     == ss58_format_bytes(ss58_format) \o address_bytes
             checksum        == blake2b(checksum_prefix \o input_bytes, 64)
         IN  Returned(b58encode(input_bytes \o Slice(checksum, 1, checksum_length)))

\* The checksum length ss58_decode derives from the decoded length; 0 stands for
\* a length it rejects.
ChecksumLength(len, ss58_format_length) ==
    IF len \in {3, 4, 6, 10} THEN 1
    ELSE IF len \in {5, 7, 11, 34 + ss58_format_length, 35 + ss58_format_length} THEN 2
    ELSE IF len \in {8, 12} THEN 3
    ELSE IF len \in {9, 13} THEN 4
    ELSE IF len = 14 THEN 5
    ELSE IF len = 15 THEN 6
    ELSE IF len = 16 THEN 7
    ELSE IF len = 17 THEN 8
    ELSE 0

\* A comparison that looks at the first checksum byte only.
ChecksumMatchesFirstByte(address_decoded, checksum_length) ==
    LET n        == Len(address_decoded)
        checksum == blake2b(checksum_prefix \o Slice(address_decoded, 1, n - checksum_length), 64)
    IN  checksum[1] = address_decoded[n - checksum_length + 1]

\* A comparison against the hash taken without the SS58PRE tag.
ChecksumMatchesUntagged(address_decoded, checksum_length) ==
    LET n        == Len(address_decoded)
        checksum == blake2b(Slice(address_decoded, 1, n - checksum_length), 64)
    IN  Slice(checksum, 1, checksum_length) = Slice(address_decoded, n - checksum_length + 1, n)

\* The checksum comparison of ss58_decode.
ChecksumMatches(address_decoded, checksum_length) ==
    LET n        == Len(address_decoded)
        checksum == blake2b(checksum_prefix \o Slice(address_decoded, 1, n - checksum_length), 64)
    IN  Slice(checksum, 1, checksum_length) = Slice(address_decoded, n - checksum_length + 1, n)

\* The part of ss58_decode after base58: prefix, reserved formats, the expected
\* format, the length table, the checksum; the payload comes back as hex text.
DecodeBytes(address_decoded, valid_ss58_format) ==
    IF address_decoded = <<>> THEN Raised("IndexError", <<"index out of range">>)
    ELSE IF (address_decoded[1] \div 64) % 2 = 1 /\ Len(address_decoded) < 2
    THEN Raised("IndexError", <<"index out of range">>)
    ELSE LET two == (address_decoded[1] \div 64) % 2 = 1
             ss58_format_length == IF two THEN 2 ELSE 1
             ss58_format ==
                 IF two
                 THEN (address_decoded[1] % 64) * 4 + (address_decoded[2] \div 64)
                      + (address_decoded[2] % 64) * 256
                 ELSE address_decoded[1]
             n == Len(address_decoded)
             checksum_length == ChecksumLength(n, ss58_format_length)
         IN  IF ss58_format \in ReservedFormats
             THEN Raised("ValueError", <<"is a reserved SS58 format">>)
             ELSE IF valid_ss58_format # NoFormat /\ ss58_format # valid_ss58_format
             THEN Raised("ValueError", <<"Invalid SS58 format">>)
             ELSE IF checksum_length = 0
             THEN Raised("ValueError", <<"Invalid address length">>)
             ELSE IF ~ChecksumMatches(address_decoded, checksum_length)
             THEN Raised("ValueError", <<"Invalid checksum">>)
             ELSE Returned(ToHex(Slice(address_decoded, ss58_format_length + 1,
                                       n - checksum_length)))

\* ss58_decode(address, valid_ss58_format): text that starts with 0x is taken for
\* a public key already and returned as it is.
DecodeResult(address_decoded, valid_ss58_format) ==
    IF address_decoded.raised THEN address_decoded
    ELSE DecodeBytes(address_decoded.val, valid_ss58_format)

\* A decode that does not hold the format against the expected one.
ss58_decode_any_format(address, valid_ss58_format) ==
    IF StartsWith(address, <<"0", "x">>) THEN Returned(address)
    ELSE IF address = <<>> THEN Raised("ValueError", <<"Empty address provided">>)
    ELSE DecodeResult(b58decode(address), NoFormat)

ss58_decode(address, valid_ss58_format) ==
    IF StartsWith(address, <<"0", "x">>) THEN Returned(address)
    ELSE IF address = <<>> THEN Raised("ValueError", <<"Empty address provided">>)
    ELSE DecodeResult(b58decode(address), valid_ss58_format)

\* str.replace('0x', ''): every occurrence of 0x, left to right, is dropped.
Remove0x(s) ==
    LET Step(st, i) ==
            IF st.skip THEN [st EXCEPT !.skip = FALSE]
            ELSE IF i < Len(s) /\ s[i] = "0" /\ s[i + 1] = "x" THEN [st EXCEPT !.skip = TRUE]
            ELSE [st EXCEPT !.out = Append(st.out, s[i])]
    IN  FoldRange(Step, [out |-> <<>>, skip |-> FALSE], 1, Len(s)).out

\* A Keypair that cuts or pads the key to 32 bytes instead of refusing it.
KeypairOfBytesResized(public_key) ==
    IF public_key.raised THEN public_key
    ELSE Returned(SubSeq(public_key.val \o Repeat(0, PublicKeyLen), 1, PublicKeyLen))

\* Keypair.__init__ on the bytes of the public key: 32 bytes are required.
KeypairOfBytes(public_key) ==
    IF public_key.raised THEN public_key
    ELSE IF Len(public_key.val) # PublicKeyLen
    THEN Raised("ValueError", <<"Public key should be 32 bytes long">>)
    ELSE Returned(public_key.val)

\* Keypair.__init__ on what ss58_decode gave: hex text, turned into bytes.
KeypairOfDecoded(decoded) ==
    IF decoded.raised THEN decoded
    ELSE IF decoded.val = <<>>
    THEN Raised("ValueError", <<"No SS58 formatted address or public key provided">>)
    ELSE KeypairOfBytes(FromHex(Remove0x(decoded.val)))

\* Keypair(ss58_address=...).public_key: the decoded payload, which must be 32 bytes.
Keypair(ss58_address) ==
    IF ss58_address = <<>>
    THEN Raised("ValueError", <<"No SS58 formatted address or public key provided">>)
    ELSE KeypairOfDecoded(ss58_decode(ss58_address, NoFormat))

(* ------------------------------------------------------------------ *)
(* scripts/address_conversion.py                                       *)
(* ------------------------------------------------------------------ *)

\* An ss58_to_pubkey that hands back the 20 bytes ss58_to_h160 keeps.
PubkeyTailOrValueError(keypair) ==
    IF keypair.raised
    THEN Raised("ValueError",
                <<"Error converting SS58 address to public key: ">> \o keypair.msg)
    ELSE Returned(Slice(keypair.val, Len(keypair.val) - H160Len + 1, Len(keypair.val)))

\* The try block of ss58_to_pubkey and its except clause: the public key, or
\* ValueError carrying the cause's message.
PubkeyOrValueError(keypair) ==
    IF keypair.raised
    THEN Raised("ValueError",
                <<"Error converting SS58 address to public key: ">> \o keypair.msg)
    ELSE Returned(keypair.val)

ss58_to_pubkey(ss58_address) == PubkeyOrValueError(Keypair(ss58_address))

\* An ss58_to_h160 that returns the hex digits without 0x before them.
H160BareOrNone(keypair) ==
    IF keypair.raised THEN ReturnedNone
    ELSE Returned(ToHex(Slice(keypair.val, Len(keypair.val) - H160Len + 1, Len(keypair.val))))

\* An ss58_to_h160 that keeps the first 20 bytes instead of the last.
H160HeadOrNone(keypair) ==
    IF keypair.raised THEN ReturnedNone
    ELSE Returned(<<"0", "x">> \o ToHex(Slice(keypair.val, 1, H160Len)))

\* The try block of ss58_to_h160 and its except clause: 0x and the hex of the
\* last 20 bytes of the public key; on any exception the message is printed and
\* None is returned.
H160OrNone(keypair) ==
    IF keypair.raised THEN ReturnedNone
    ELSE Returned(<<"0", "x">> \o
                  ToHex(Slice(keypair.val, Len(keypair.val) - H160Len + 1, Len(keypair.val))))

ss58_to_h160(ss58_address) == H160OrNone(Keypair(ss58_address))

\* The lines the except clause of ss58_to_h160 prints on standard output.
H160Printed(keypair) ==
    IF keypair.raised THEN << <<"Error converting address: ">> \o keypair.msg >> ELSE <<>>

\* The lowest format written with a two-byte prefix.
LowestTwoByteFormat == MaxOneByteFormat + 1

\* The ss58_format h160_to_ss58 uses when the caller passes none.
DefaultSs58Format == 42

\* bytes('evm:', 'utf-8')
EvmTag == <<101, 118, 109, 58>>

\* The part of h160_to_ss58 after bytes.fromhex: the 32-byte blake2b of
\* b'evm:' ++ bytes is SS58-encoded.  An exception of fromhex or ss58_encode
\* propagates.
EncodeEvm(address_bytes, ss58_format) ==
    IF address_bytes.raised THEN address_bytes
    ELSE ss58_encode(blake2b(EvmTag \o address_bytes.val, 32), ss58_format)

\* An h160_to_ss58 that hands its argument to bytes.fromhex as it is.
h160_to_ss58_keep_0x(h160_address, ss58_format) ==
    EncodeEvm(FromHex(h160_address), ss58_format)

\* An h160_to_ss58 that encodes under the default format whatever it is given.
h160_to_ss58_default_only(h160_address, ss58_format) ==
    EncodeEvm(FromHex(IF StartsWith(h160_address, <<"0", "x">>)
                      THEN Slice(h160_address, 3, Len(h160_address))
                      ELSE h160_address),
              DefaultSs58Format)

\* h160_to_ss58: one leading 0x is dropped and the rest goes through bytes.fromhex.
h160_to_ss58(h160_address, ss58_format) ==
    EncodeEvm(FromHex(IF StartsWith(h160_address, <<"0", "x">>)
                      THEN Slice(h160_address, 3, Len(h160_address))
                      ELSE h160_address),
              ss58_format)

(* ------------------------------------------------------------------ *)
(* scripts/send_eth_to_ss58.py                                         *)
(* ------------------------------------------------------------------ *)

\* Web3.to_checksum_address: None is no address.
to_checksum_address(value) ==
    IF value.none THEN Raised("TypeError", <<"Unsupported type: NoneType">>)
    ELSE Returned(value.val)

\* main of send_eth_to_ss58.py after the conversion, as <<outcome, what it did in
\* order, h160_address>>.  argc_ok: two arguments were given; amount_ok: float()
\* accepts the amount; rpc_ok: RPC_URL is set and the node answers; key_ok:
\* PRIVATE_KEY is set.
send_eth_steps(h160_address, argc_ok, amount_ok, rpc_ok, key_ok) ==
    IF ~argc_ok THEN <<Raised("SystemExit", <<"1">>), <<"usage">>, NotCalled>>
    ELSE IF ~amount_ok THEN <<Raised("SystemExit", <<"1">>), <<"amount error">>, NotCalled>>
    ELSE IF ~rpc_ok
    THEN <<Raised("SystemExit", <<"1">>), <<"convert", "print h160">>, h160_address>>
    ELSE IF ~key_ok
    THEN <<Raised("SystemExit", <<"1">>), <<"convert", "print h160", "connect">>, h160_address>>
    ELSE IF to_checksum_address(h160_address).raised
    THEN <<to_checksum_address(h160_address),
           <<"convert", "print h160", "connect", "account">>, h160_address>>
    ELSE <<Returned(h160_address.val),
           <<"convert", "print h160", "connect", "account", "sign", "send", "receipt">>,
           h160_address>>

send_eth_main(ss58_address, argc_ok, amount_ok, rpc_ok, key_ok) ==
    send_eth_steps(ss58_to_h160(ss58_address), argc_ok, amount_ok, rpc_ok, key_ok)

(* ------------------------------------------------------------------ *)
(* The inputs the operations are called on                             *)
(* ------------------------------------------------------------------ *)

\* Public keys: zero; one sharing its last 20 bytes with it; one whose checksum
\* with and without the SS58PRE tag agree under format 42; a well-known key;
\* all ones.
Keys ==
    << Repeat(0, 32),
       Repeat(255, 12) \o Repeat(0, 20),
       Repeat(0, 30) \o <<222, 117>>,
       <<212,53,147,199,21,253,211,28,97,20,26,189,4,169,159,214,130,44,133,88,133,76,205,227,154,86,132,231,165,109,162,125>>,
       Repeat(255, 32) >>

NumKeys == 3

\* ss58_format values: the default, a reserved one, the first two-byte one, the
\* smallest, the largest, the last one-byte one, the other reserved one.
Formats == <<42, 46, 64, 0, 16383, 63, 47>>

NumFormats == 4

FormatSet == {Formats[i] : i \in 1..NumFormats}

\* Which decoded byte a corruption changes, counted back from the last byte:
\* 0 and 1 are the checksum, the others the payload.
Offsets == <<0, 2, 1, 21, 33>>

NumOffsets == 2

OffsetSet == {Offsets[i] : i \in 1..NumOffsets}

\* The bit a corruption flips.
BitMasks == {1, 128}

\* Characters outside the base58 alphabet.
BadChars == {"0", "O", "I", "l", " "}

\* The text positions a bad character is put at.
NumBadPositions == 1

\* Payload lengths other than 32 that ss58_encode accepts.
OtherLengths == {33, 1, 8}

\* The number of leading decoded bytes a cut-off address keeps.
TruncatedLengths == {34, 17, 3}

\* H160 texts: 20 zero bytes; an address with and without 0x and in upper case;
\* too short; empty; 21 bytes; an odd number of digits; non-hex digits; a blank
\* between two bytes; an upper-case 0X; 0x twice.
HexAddr ==
    <<"5","2","9","0","8","4","0","0","0","9","8","5","2","7","8","8","6","e","0","f",
      "7","0","3","0","0","6","9","8","5","7","d","2","e","4","1","6","9","e","e","7">>

HexAddrUpper ==
    <<"5","2","9","0","8","4","0","0","0","9","8","5","2","7","8","8","6","E","0","F",
      "7","0","3","0","0","6","9","8","5","7","D","2","E","4","1","6","9","E","E","7">>

H160Texts ==
    << <<"0","x">> \o Repeat("0", 40),
       <<"0","x">> \o HexAddr,
       HexAddr,
       <<"0","x">> \o HexAddrUpper,
       <<"0","x","1","2","3","4">>,
       <<>>,
       <<"0","x">> \o HexAddr \o <<"f","f">>,
       <<"0","x">> \o SubSeq(HexAddr, 1, 39),
       <<"0","x">> \o SubSeq(HexAddr, 1, 38) \o <<"z","z">>,
       <<"0","x">> \o SubSeq(HexAddr, 1, 20) \o <<" ">> \o SubSeq(HexAddr, 21, 40),
       <<"0","X">> \o HexAddr,
       <<"0","x","0","x">> \o HexAddr >>

\* b with the bit `mask` flipped.
FlipBit(b, mask) == IF (b \div mask) % 2 = 1 THEN b - mask ELSE b + mask

\* How an SS58 text is made: kind, the key's index, the format, and two
\* numbers whose meaning depends on the kind.
Gen(kind, key, fmt, pos, alt) == [kind |-> kind, key |-> key, fmt |-> fmt, pos |-> pos, alt |-> alt]

EncodableFormats == {f \in FormatSet : f \notin ReservedFormats}

Gens ==
    {Gen("valid", k, f, 0, 0) : k \in 1..NumKeys, f \in EncodableFormats}
    \cup {Gen("tamper", k, f, o, m) : k \in 1..NumKeys, f \in EncodableFormats,
                                       o \in OffsetSet, m \in BitMasks}
    \cup {Gen("untagged", k, f, 0, 0) : k \in 1..NumKeys, f \in EncodableFormats}
    \cup {Gen("badchar", k, f, p, c) : k \in 1..NumKeys, f \in EncodableFormats,
                                        p \in 1..NumBadPositions, c \in 1..5}
    \cup {Gen("trailing", k, f, 0, c) : k \in 1..NumKeys, f \in EncodableFormats, c \in 1..2}
    \cup {Gen("length", k, f, n, 0) : k \in 1..NumKeys, f \in EncodableFormats, n \in OtherLengths}
    \cup {Gen("truncated", k, f, n, 0) : k \in 1..NumKeys, f \in EncodableFormats,
                                           n \in TruncatedLengths}
    \cup {Gen("nopayload", 1, f, 0, 0) : f \in {x \in EncodableFormats : x > MaxOneByteFormat}}
    \cup {Gen("hexkey", k, 0, 0, 0) : k \in 1..NumKeys}
    \cup {Gen("empty", 1, 0, 0, 0)}

BadCharAt == <<"0", "O", "I", "l", " ">>

TrailingAt == <<" ", "\n">>

\* The decoded bytes raw with one bit of one byte flipped, encoded again.
Tamper(raw, pos, mask) ==
    b58encode([raw EXCEPT ![Len(raw) - pos] = FlipBit(raw[Len(raw) - pos], mask)])

\* prefix ++ key ++ the first two bytes of blake2b(prefix ++ key): the checksum
\* without the SS58PRE tag.
Untagged(body) == b58encode(body \o Slice(blake2b(body, 64), 1, 2))

\* A two-byte prefix and a one-byte checksum with no payload between them.
NoPayload(prefix) == b58encode(prefix \o Slice(blake2b(checksum_prefix \o prefix, 64), 1, 1))

\* The text a Gen describes, given the valid encoding of its key.
BuildFrom(g, valid) ==
    CASE g.kind = "valid"    -> valid
      [] g.kind = "tamper"   -> Tamper(b58decode(valid).val, g.pos, g.alt)
      [] g.kind = "untagged" -> Untagged(ss58_format_bytes(g.fmt) \o Keys[g.key])
      [] g.kind = "badchar"  -> [valid EXCEPT ![g.pos] = BadCharAt[g.alt]]
      [] g.kind = "trailing" -> valid \o <<TrailingAt[g.alt]>>
      [] g.kind = "length"   -> ss58_encode(SubSeq(Keys[g.key] \o <<7>>, 1, g.pos), g.fmt).val
      [] g.kind = "truncated" -> b58encode(SubSeq(b58decode(valid).val, 1, g.pos))
      [] g.kind = "nopayload" -> NoPayload(ss58_format_bytes(g.fmt))
      [] g.kind = "hexkey"   -> <<"0", "x">> \o ToHex(Keys[g.key])
      [] g.kind = "empty"    -> <<>>

Build(g) == BuildFrom(g, ss58_encode(Keys[g.key], g.fmt).val)

NoGen == Gen("none", 0, 0, 0, 0)

\* Byte strings base58 is called on: every string of up to MaxBytesLen bytes
\* out of ByteValues, runs of zero bytes, and the keys.
ByteValues == {0, 1, 255}

MaxBytesLen == 3

ZeroRuns == {8, 35}

ByteSeqs ==
    UNION {[1..n -> ByteValues] : n \in 0..MaxBytesLen}
    \cup {Repeat(0, n) : n \in ZeroRuns}
    \cup {Keys[k] : k \in 1..NumKeys}

\* Texts b58decode is called on: every text of up to MaxBytesLen characters
\* out of Base58Chars, and runs of "1".
Base58Chars == {"1", "2", "z"}

Base58Texts ==
    UNION {[1..n -> Base58Chars] : n \in 0..MaxBytesLen}
    \cup {Repeat("1", n) : n \in ZeroRuns}


(* ------------------------------------------------------------------ *)
(* How a script run ends                                               *)
(* ------------------------------------------------------------------ *)

\* sys.exit(status)
Exit(status) == Raised("SystemExit", <<status>>)

\* The exit status of the process: that of sys.exit, 1 for any other uncaught
\* exception, 0 when main returns.
ExitStatus(r) ==
    IF ~r.raised THEN "0"
    ELSE IF r.exc = "SystemExit" THEN r.msg[1]
    ELSE "1"

\* The outcome of a script run: how it ended, what it did in order, a value it
\* computed on the way, and the keyfile it left.
Run(outcome, did, value, file) ==
    [ret |-> outcome, steps |-> did, local |-> value, file |-> file]

(* ------------------------------------------------------------------ *)
(* scripts/h160_to_ss58.py                                             *)
(* ------------------------------------------------------------------ *)

\* main of h160_to_ss58.py: the address is printed; any exception of the
\* conversion is printed and the script exits with status 1.
h160_to_ss58_main(address) ==
    LET converted == h160_to_ss58(address, DefaultSs58Format)
    IN  IF converted.raised
        THEN Run(Exit("1"), <<"convert">>, converted, <<>>)
        ELSE Run(ReturnedNone, <<"convert", "print">>, converted, <<>>)

(* ------------------------------------------------------------------ *)
(* scripts/generate_keypair.py                                         *)
(* ------------------------------------------------------------------ *)

\* The keyfile: absent, the one of an earlier run, the one Account.create()
\* gives now.
NoFile == [exists |-> FALSE, address |-> <<>>, private_key |-> ""]

OldKeyfile == [exists |-> TRUE, address |-> H160Texts[2], private_key |-> "old"]

NewKeyfile == [exists |-> TRUE, address |-> H160Texts[4], private_key |-> "new"]

\* A generate_and_save_keypair that takes any keyword.
generate_and_save_keypair_any_keyword(file, keywords) ==
    [file |-> NewKeyfile, ret |-> Returned(NewKeyfile)]

\* generate_and_save_keypair(output_path): its only parameter is output_path, any
\* other keyword is a TypeError before the body runs; the body creates a keypair
\* and writes it with open(output_path, "w"), whatever the file held.
generate_and_save_keypair(file, keywords) ==
    IF keywords \subseteq {"output_path"}
    THEN [file |-> NewKeyfile, ret |-> Returned(NewKeyfile)]
    ELSE [file |-> file,
          ret  |-> Raised("TypeError",
                          <<"generate_and_save_keypair() got an unexpected keyword argument">>)]

\* main of generate_keypair.py and the try around it.
generate_keypair_main(e) ==
    IF ~e.argc_ok THEN Run(Exit("1"), <<"usage">>, NotCalled, e.file)
    ELSE Run(ReturnedNone, <<"generate">>, NotCalled, generate_and_save_keypair(e.file, {}).file)

(* ------------------------------------------------------------------ *)
(* scripts/setup_evm.py                                                *)
(* ------------------------------------------------------------------ *)

\* Which step of the chain work fails.
SetupFailures == {"none", "associate", "transfer", "deploy", "deploy output", "commit"}

\* Lines 204-219: the commitment is published; MetadataError ends the run.
SetupCommit(e, did, dest) ==
    IF e.fails = "commit" THEN Run(Exit("1"), Append(did, "commit failed"), dest, e.file)
    ELSE Run(ReturnedNone, Append(did, "commit"), dest, e.file)

\* Lines 187-202: with --verify the contract is verified; CalledProcessError is
\* printed and the run goes on.
SetupVerify(e, did, dest) ==
    SetupCommit(e,
                IF ~e.verify THEN did
                ELSE IF e.verify_ok THEN Append(did, "verify")
                ELSE Append(did, "verify failed"),
                dest)

\* Lines 149-185: without --deploy main returns; a failed deploy.sh exits with
\* status 2; without a "Deployed to: " line next() raises StopIteration.
SetupDeploy(e, did, dest) ==
    IF ~e.deploy THEN Run(ReturnedNone, did, dest, e.file)
    ELSE IF e.fails = "deploy" THEN Run(Exit("2"), Append(did, "deploy failed"), dest, e.file)
    ELSE IF e.fails = "deploy output"
    THEN Run(Raised("StopIteration", <<>>), Append(did, "deploy"), dest, e.file)
    ELSE SetupVerify(e, Append(did, "deploy"), dest)

\* Lines 132-147: a positive amount is transferred to h160_to_ss58(address), a
\* failed transfer exits with status 1; otherwise that address is printed.
SetupTransfer(e, did, dest) ==
    IF dest.raised THEN Run(dest, did, dest, e.file)
    ELSE IF ~e.amount_positive THEN SetupDeploy(e, Append(did, "print top up"), dest)
    ELSE IF e.fails = "transfer" THEN Run(Exit("1"), Append(did, "transfer failed"), dest, e.file)
    ELSE SetupDeploy(e, Append(did, "transfer"), dest)

\* A run that goes on after a failed association.
SetupAssociateLenient(e, keypair, did) ==
    SetupTransfer(e, Append(did, IF e.fails = "associate" THEN "associate failed" ELSE "associate"),
                  h160_to_ss58(keypair.address, DefaultSs58Format))

\* Lines 117-130: the EVM key is associated; failure exits with status 1.
SetupAssociate(e, keypair, did) ==
    IF e.fails = "associate"
    THEN Run(Exit("1"), Append(did, "associate failed"), NotCalled, e.file)
    ELSE SetupTransfer(e, Append(did, "associate"),
                       h160_to_ss58(keypair.address, DefaultSs58Format))

\* Lines 110-115: generate_and_save_keypair(output_path=..., overwrite=...);
\* FileExistsError exits with status 1, any other exception is not caught.
SetupGenerate(e, made) ==
    IF made.ret.raised
    THEN Run(IF made.ret.exc = "FileExistsError" THEN Exit("1") ELSE made.ret,
             <<"generate failed">>, NotCalled, made.file)
    ELSE SetupAssociate([e EXCEPT !.file = made.file], made.ret.val, <<"generate">>)

\* main of setup_evm.py.  --overwrite and --reuse exclude each other (argparse
\* exits with status 2); with --reuse the keyfile is read, and a missing one
\* exits with status 1.
setup_evm_main(e) ==
    IF e.overwrite /\ e.reuse THEN Run(Exit("2"), <<>>, NotCalled, e.file)
    ELSE IF e.reuse
    THEN IF e.file.exists THEN SetupAssociate(e, e.file, <<"read keyfile">>)
         ELSE Run(Exit("1"), <<"read keyfile failed">>, NotCalled, e.file)
    ELSE SetupGenerate(e, generate_and_save_keypair(e.file, {"output_path", "overwrite"}))

\* The command lines and surroundings setup_evm.py is run in.
SetupEnvs ==
    [overwrite : BOOLEAN, reuse : BOOLEAN, deploy : BOOLEAN, verify : BOOLEAN,
     amount_positive : BOOLEAN, file : {NoFile, OldKeyfile},
     fails : SetupFailures, verify_ok : BOOLEAN]

(* ------------------------------------------------------------------ *)
(* scripts/deposit_collateral.py and the functions of common.py it     *)
(* calls                                                               *)
(* ------------------------------------------------------------------ *)

\* str.lower() on the letters an address has.
LowerChar(c) ==
    IF c = "X" THEN "x"
    ELSE IF \E i \in 11..16 : HexUpper[i] = c
    THEN HexLower[CHOOSE i \in 11..16 : HexUpper[i] = c]
    ELSE c

Lower(s) == [i \in 1..Len(s) |-> LowerChar(s[i])]

\* validate_address_format: sys.exit(1) unless Web3.is_address.
validate_address_format(is_address) == IF is_address THEN ReturnedNone ELSE Exit("1")

\* load_contract_abi: sys.exit(1) when the artifacts file is missing.
load_contract_abi(abi_found) == IF abi_found THEN ReturnedNone ELSE Exit("1")

\* verify_trustee
verify_trustee(trustee, expected_trustee) ==
    IF Lower(trustee) # Lower(expected_trustee)
    THEN Raised("ValueError", <<"Error: Trustee address mismatch">>)
    ELSE ReturnedNone

\* check_minimum_collateral
check_minimum_collateral(min_collateral, amount_wei) ==
    IF amount_wei < min_collateral
    THEN Raised("ValueError", <<"Error: Amount is less than minimum required">>)
    ELSE Returned(min_collateral)

\* The parameters build_and_send_transaction requires, in order.
RequiredParameters == <<"w3", "contract", "function_call", "account">>

\* build_and_send_transaction(w3, contract, function_call, account, gas_limit=100000,
\* value=0), called with `positional` positional arguments and the keywords
\* `keywords`: a required parameter left without an argument is a TypeError
\* before the body runs; the body builds, signs and sends, and what the node
\* refuses raises out of send_raw_transaction.
build_and_send_transaction(positional, keywords, send_ok) ==
    IF \E i \in 1..Len(RequiredParameters) : i > positional /\ RequiredParameters[i] \notin keywords
    THEN [ret |-> Raised("TypeError",
                         <<"build_and_send_transaction() missing 1 required positional argument: 'account'">>),
          steps |-> <<>>]
    ELSE IF ~send_ok
    THEN [ret |-> Raised("Web3RPCError", <<"send_raw_transaction failed">>),
          steps |-> <<"build", "sign">>]
    ELSE [ret |-> Returned(<<"tx_hash">>), steps |-> <<"build", "sign", "send">>]

\* Lines 81-87 of deposit_collateral: the receipt; status 0 raises
\* DepositCollateralError.
DepositReceipt(e, did) ==
    IF ~e.receipt_ok
    THEN Run(Raised("DepositCollateralError", <<"Transaction failed for depositing collateral">>),
             Append(did, "receipt"), NotCalled, <<>>)
    ELSE Run(Returned(<<"deposit_event", "receipt">>), Append(did, "receipt"), NotCalled, <<>>)

\* Lines 77-79: build_and_send_transaction(w3, contract.functions.deposit(), account,
\* value=amount_wei).
DepositSend(e, did, sent) ==
    IF sent.ret.raised THEN Run(sent.ret, did \o sent.steps, NotCalled, <<>>)
    ELSE DepositReceipt(e, did \o sent.steps)

\* The function deposit_collateral, its names bound: both addresses are
\* validated, the ABI is loaded, the trustee is verified, the amount is checked,
\* the transaction goes out.
deposit_collateral(e) ==
    IF validate_address_format(e.contract_valid).raised
    THEN Run(validate_address_format(e.contract_valid), <<>>, NotCalled, <<>>)
    ELSE IF validate_address_format(e.trustee_valid).raised
    THEN Run(validate_address_format(e.trustee_valid), <<"validate contract">>, NotCalled, <<>>)
    ELSE IF load_contract_abi(e.abi_found).raised
    THEN Run(load_contract_abi(e.abi_found),
             <<"validate contract", "validate trustee">>, NotCalled, <<>>)
    ELSE IF verify_trustee(e.trustee, e.expected).raised
    THEN Run(verify_trustee(e.trustee, e.expected),
             <<"validate contract", "validate trustee", "load abi">>, NotCalled, <<>>)
    ELSE IF check_minimum_collateral(e.min_collateral, e.amount_wei).raised
    THEN Run(check_minimum_collateral(e.min_collateral, e.amount_wei),
             <<"validate contract", "validate trustee", "load abi", "verify trustee">>,
             NotCalled, <<>>)
    ELSE DepositSend(e,
                     <<"validate contract", "validate trustee", "load abi", "verify trustee",
                       "check minimum">>,
                     build_and_send_transaction(3, {"value"}, e.send_ok))

\* get_web3_connection(), which has no parameter, called with `positional`
\* arguments.
get_web3_connection(positional, rpc_ok) ==
    IF positional > 0
    THEN Raised("TypeError",
                <<"get_web3_connection() takes 0 positional arguments but 1 was given">>)
    ELSE IF ~rpc_ok THEN Exit("1")
    ELSE ReturnedNone

\* The names common.py defines.
CommonNames ==
    {"load_contract_abi", "get_web3_connection", "get_account", "get_contract_config",
     "validate_address_format", "build_and_send_transaction", "wait_for_receipt",
     "calculate_md5_checksum", "DepositEvent", "get_deposit_events", "get_miner_collateral"}

\* The names deposit_collateral.py imports from common.
DepositImports ==
    {"load_contract_abi", "get_web3_connection", "get_account", "validate_address_format",
     "build_and_send_transaction", "wait_for_receipt", "get_revert_reason"}

\* from <module> import <wanted>: ImportError when the module lacks a name.
ImportFrom(defined, wanted) ==
    IF wanted \subseteq defined THEN ReturnedNone
    ELSE Raised("ImportError", <<"cannot import name from 'common'">>)

\* The part of main after the imports, and the try around main: argparse, then
\* get_web3_connection(network_url); an exception is printed and the script
\* exits with status 1.
DepositMainBody(e) ==
    IF ~e.args_ok THEN Run(Exit("2"), <<"import">>, NotCalled, <<>>)
    ELSE IF get_web3_connection(1, e.rpc_ok).raised
    THEN Run(IF get_web3_connection(1, e.rpc_ok).exc = "SystemExit"
             THEN get_web3_connection(1, e.rpc_ok) ELSE Exit("1"),
             <<"import", "parse", "connect failed">>, NotCalled, <<>>)
    ELSE Run(deposit_collateral(e).ret,
             <<"import", "parse", "connect", "account">> \o deposit_collateral(e).steps,
             NotCalled, <<>>)

\* A run of deposit_collateral.py: the imports at the top of the file, outside
\* every try, then main.
deposit_collateral_main(e) ==
    IF ImportFrom(CommonNames, DepositImports).raised
    THEN Run(ImportFrom(CommonNames, DepositImports), <<"import failed">>, NotCalled, <<>>)
    ELSE DepositMainBody(e)

\* The largest amount and minimum, in wei, the deposit is tried with.
MaxWei == 2

\* The trustee of the contract and the ones the caller expects: the same text,
\* the same in another case, another address.
ContractTrustee == <<"0","x">> \o HexAddrUpper

ExpectedTrustees == {<<"0","x">> \o HexAddrUpper, <<"0","x">> \o HexAddr, <<"0","x">> \o Repeat("0", 40)}

DepositEnvs ==
    [contract_valid : BOOLEAN, trustee_valid : BOOLEAN, abi_found : BOOLEAN,
     trustee : {ContractTrustee}, expected : ExpectedTrustees,
     amount_wei : 0..MaxWei, min_collateral : 0..MaxWei,
     receipt_ok : BOOLEAN, send_ok : BOOLEAN, args_ok : BOOLEAN, rpc_ok : BOOLEAN]

\* No script is run.
NoEnv == [none |-> TRUE]

(* ------------------------------------------------------------------ *)
(* Concurrent calls of the conversion functions                        *)
(* ------------------------------------------------------------------ *)

NumThreads == 2

Threads == 1..NumThreads

\* The calls a thread makes: the same address with and without 0x under the
\* default format and under another one, an SS58 text with a character outside
\* the alphabet, an empty one, a valid one, a public key in hex.
Jobs ==
    << [fn |-> "h160_to_ss58", gen |-> Gen("h160", 2, NoFormat, 0, 0)],
       [fn |-> "h160_to_ss58", gen |-> Gen("h160", 3, NoFormat, 0, 0)],
       [fn |-> "h160_to_ss58", gen |-> Gen("h160", 3, Formats[3], 0, 0)],
       [fn |-> "ss58_to_h160", gen |-> Gen("badchar", 1, DefaultSs58Format, 1, 1)],
       [fn |-> "ss58_to_h160", gen |-> Gen("empty", 1, 0, 0, 0)],
       [fn |-> "ss58_to_h160", gen |-> Gen("valid", 1, DefaultSs58Format, 0, 0)],
       [fn |-> "ss58_to_pubkey", gen |-> Gen("hexkey", 1, 0, 0, 0)] >>

\* What a call works out in its own frame before it prints or returns: the
\* Keypair, or the encoded address.
JobFrame(job) ==
    IF job.fn = "h160_to_ss58"
    THEN h160_to_ss58(H160Texts[job.gen.key],
                      IF job.gen.fmt = NoFormat THEN DefaultSs58Format ELSE job.gen.fmt)
    ELSE Keypair(Build(job.gen))

\* What the call hands back to its caller.
JobReturn(job, frame) ==
    CASE job.fn = "h160_to_ss58"   -> frame
      [] job.fn = "ss58_to_h160"   -> H160OrNone(frame)
      [] job.fn = "ss58_to_pubkey" -> PubkeyOrValueError(frame)

NoJob == [fn |-> "none", gen |-> NoGen]

IdleThread == [pc |-> "idle", job |-> NoJob, frame |-> NotCalled, ret |-> NotCalled]

(* ------------------------------------------------------------------ *)
(* scripts/deny_request.py, finalize_reclaim.py, slash_collateral.py,  *)
(* reclaim_collateral.py and the functions of common.py they call      *)
(* ------------------------------------------------------------------ *)

\* What a URL is answered with.
Contents ==
    << <<>>,
       <<97>>,
       <<100,101,110,105,101,100>> >>

\* hashlib.md5(content).digest() of each of Contents.
Md5Table ==
    << <<212,29,140,217,143,0,178,4,233,128,9,152,236,248,66,126>>,
       <<12,193,117,185,192,241,182,168,49,195,153,226,105,119,38,97>>,
       <<134,87,38,178,136,95,238,248,232,178,91,86,162,215,200,248>> >>

md5(content) == Md5Table[CHOOSE i \in 1..Len(Contents) : Contents[i] = content]

\* The url arguments the scripts are run with.
Urls ==
    { <<"h","t","t","p",":","/","/","a">>,
      <<"h","t","t","p","s",":","/","/","a">>,
      <<"H","T","T","P",":","/","/","a">>,
      <<"f","t","p",":","/","/","a">>,
      <<"h","t","t","p",":","/","a">>,
      <<"a">>,
      <<>> }

\* requests.get(url) and raise_for_status(): the content, or a RequestException.
Fetches ==
    {Returned(Contents[i]) : i \in 1..Len(Contents)}
    \cup {Raised("RequestException", <<"404 Client Error">>)}

\* calculate_md5_checksum of common.py: the hexdigest of the MD5 of the content;
\* a RequestException is printed and the process exits with status 1.
calculate_md5_checksum(fetched) ==
    IF fetched.raised THEN Exit("1")
    ELSE Returned(ToHex(md5(fetched.val)))

\* calculate_md5_checksum of reclaim_collateral.py, which has its own.
reclaim_calculate_md5_checksum(fetched) ==
    IF fetched.raised THEN Exit("1")
    ELSE Returned(ToHex(md5(fetched.val)))

\* url.startswith(("http://", "https://"))
IsHttpUrl(url) ==
    \/ StartsWith(url, <<"h","t","t","p",":","/","/">>)
    \/ StartsWith(url, <<"h","t","t","p","s",":","/","/">>)

\* A checksum rule that fetches https URLs only.
Md5ChecksumHttpsOnly(url, checksum) ==
    IF StartsWith(url, <<"h","t","t","p","s",":","/","/">>) THEN checksum
    ELSE Returned(Repeat("0", 32))

\* md5_checksum = "0" * 32, replaced by the checksum of the content when the url
\* starts with http:// or https://.
Md5Checksum(url, checksum) ==
    IF IsHttpUrl(url) THEN checksum ELSE Returned(Repeat("0", 32))

\* The receipts wait_for_receipt gives: a reverted transaction (status 0, which
\* leaves no log), a mined one with the event, a mined one without it.
Receipts ==
    {[status |-> 0, events |-> 0], [status |-> 1, events |-> 1], [status |-> 1, events |-> 0]}

\* A process_receipt(receipt)[0] that makes up an event when the receipt has none.
FirstEventOrEmpty(receipt, result) == Returned(result)

\* contract.events.X().process_receipt(receipt)[0]: the first event of the
\* receipt, IndexError when it has none.
FirstEvent(receipt, result) ==
    IF receipt.events = 0 THEN Raised("IndexError", <<"tuple index out of range">>)
    ELSE Returned(result)

\* if receipt['status'] == 0: raise <error>; then the first event.
CheckedReceipt(receipt, error, result) ==
    IF receipt.status = 0 THEN Raised(error, <<"Transaction failed">>)
    ELSE FirstEvent(receipt, result)

\* tx_hash = build_and_send_transaction(...), wait_for_receipt, and what the
\* function makes of the receipt.  checksum is what the call object holds.
SendAndReceive(did, checksum, sent, outcome) ==
    IF sent.ret.raised THEN Run(sent.ret, did \o sent.steps, checksum, <<>>)
    ELSE Run(outcome, did \o sent.steps \o <<"receipt">>, checksum, <<>>)

\* The checksum is worked out, the call object is made with
\* bytes.fromhex(md5_checksum), the transaction goes out.
WithChecksum(did, md5_checksum, sent, outcome) ==
    IF md5_checksum.raised THEN Run(md5_checksum, Append(did, "fetch failed"), NotCalled, <<>>)
    ELSE SendAndReceive(Append(did, "checksum"), FromHex(md5_checksum.val), sent, outcome)

\* deny_reclaim_request
deny_reclaim_request(e) ==
    IF validate_address_format(e.contract_valid).raised
    THEN Run(validate_address_format(e.contract_valid), <<>>, NotCalled, <<>>)
    ELSE IF load_contract_abi(e.abi_found).raised
    THEN Run(load_contract_abi(e.abi_found), <<"validate contract">>, NotCalled, <<>>)
    ELSE WithChecksum(<<"validate contract", "load abi">>,
                      Md5Checksum(e.url, calculate_md5_checksum(e.fetched)),
                      build_and_send_transaction(3, {}, e.send_ok),
                      CheckedReceipt(e.receipt, "DenyReclaimRequestError",
                                     <<"deny_event", "receipt">>))

\* slash_collateral
slash_collateral(e) ==
    IF load_contract_abi(e.abi_found).raised
    THEN Run(load_contract_abi(e.abi_found), <<>>, NotCalled, <<>>)
    ELSE WithChecksum(<<"load abi">>,
                      Md5Checksum(e.url, calculate_md5_checksum(e.fetched)),
                      build_and_send_transaction(3, {"gas_limit"}, e.send_ok),
                      CheckedReceipt(e.receipt, "SlashCollateralError",
                                     <<"receipt", "slash_event">>))

\* finalize_reclaim
finalize_reclaim(e) ==
    IF validate_address_format(e.contract_valid).raised
    THEN Run(validate_address_format(e.contract_valid), <<>>, NotCalled, <<>>)
    ELSE IF load_contract_abi(e.abi_found).raised
    THEN Run(load_contract_abi(e.abi_found), <<"validate contract">>, NotCalled, <<>>)
    ELSE SendAndReceive(<<"validate contract", "load abi">>, NotCalled,
                        build_and_send_transaction(3, {}, e.send_ok),
                        CheckedReceipt(e.receipt, "FinalizeReclaimError",
                                       <<"reclaim_event", "receipt">>))

\* The try of finalize_reclaim.py's main: the branch of except FinalizeReclaimError
\* and the branch of except Exception both exit with status 1; SystemExit passes
\* both.
FinalizeHandled(out) ==
    IF ~out.ret.raised THEN Run(ReturnedNone, Append(out.steps, "print success"), out.local, <<>>)
    ELSE IF out.ret.exc = "FinalizeReclaimError"
    THEN Run(Exit("1"), Append(out.steps, "except FinalizeReclaimError"), out.local, <<>>)
    ELSE IF out.ret.exc = "SystemExit" THEN out
    ELSE Run(Exit("1"), Append(out.steps, "except Exception"), out.local, <<>>)

\* main of finalize_reclaim.py: get_web3_connection() and get_account() before
\* the try.
finalize_reclaim_main(e) ==
    IF get_web3_connection(0, e.rpc_ok).raised
    THEN Run(get_web3_connection(0, e.rpc_ok), <<"connect failed">>, NotCalled, <<>>)
    ELSE FinalizeHandled(finalize_reclaim(e))

\* reclaim_collateral: no check of the receipt's status; the first
\* ReclaimProcessStarted event of the receipt is taken.
reclaim_collateral(e) ==
    IF load_contract_abi(e.abi_found).raised
    THEN Run(load_contract_abi(e.abi_found), <<>>, NotCalled, <<>>)
    ELSE WithChecksum(<<"load abi">>,
                      Md5Checksum(e.url, reclaim_calculate_md5_checksum(e.fetched)),
                      build_and_send_transaction(4, {"gas_limit"}, e.send_ok),
                      FirstEvent(e.receipt, <<"receipt", "event", "amount_tao">>))

\* The try of reclaim_collateral.py's main: except Exception exits with status 1;
\* SystemExit passes it.
ReclaimHandled(out) ==
    IF ~out.ret.raised THEN Run(ReturnedNone, Append(out.steps, "print success"), out.local, <<>>)
    ELSE IF out.ret.exc = "SystemExit" THEN out
    ELSE Run(Exit("1"), Append(out.steps, "except Exception"), out.local, <<>>)

\* main of reclaim_collateral.py with its three arguments: validate_address_format,
\* get_web3_connection() and get_account(), then the try.
reclaim_collateral_main(e) ==
    IF validate_address_format(e.contract_valid).raised
    THEN Run(validate_address_format(e.contract_valid), <<>>, NotCalled, <<>>)
    ELSE IF get_web3_connection(0, e.rpc_ok).raised
    THEN Run(get_web3_connection(0, e.rpc_ok), <<"connect failed">>, NotCalled, <<>>)
    ELSE ReclaimHandled(reclaim_collateral(e))

\* The arguments and surroundings of these scripts.
TxEnvs ==
    [contract_valid : BOOLEAN, abi_found : BOOLEAN, url : Urls, fetched : Fetches,
     send_ok : BOOLEAN, receipt : Receipts, rpc_ok : BOOLEAN]

(* ------------------------------------------------------------------ *)
(* scripts/verify_contract.py and get_contract_config of common.py     *)
(* ------------------------------------------------------------------ *)

\* What the deployed contract answers to NETUID(), TRUSTEE(), DECISION_TIMEOUT()
\* and MIN_COLLATERAL_INCREASE().
Configs ==
    {[netuid |-> <<1>>, trustee |-> Repeat(17, H160Len), decision_timeout |-> <<20>>,
      min_collateral_increase |-> <<30>>],
     [netuid |-> <<2>>, trustee |-> Repeat(34, H160Len), decision_timeout |-> <<5>>,
      min_collateral_increase |-> <<5>>]}

\* A get_contract_config that returns in the order its docstring gives.
get_contract_config_as_documented(cfg, config_ok) ==
    IF ~config_ok THEN Raised("ContractLogicError", <<"execution reverted">>)
    ELSE Returned(<<cfg.trustee, cfg.decision_timeout, cfg.min_collateral_increase, cfg.netuid>>)

\* get_contract_config: the four values are read and returned as
\* netuid, trustee, decision_timeout, min_collateral_increase; a failed call raises.
get_contract_config(cfg, config_ok) ==
    IF ~config_ok THEN Raised("ContractLogicError", <<"execution reverted">>)
    ELSE Returned(<<cfg.netuid, cfg.trustee, cfg.decision_timeout, cfg.min_collateral_increase>>)

\* The runtime code of Collateral.sol, which holds the constructor's arguments
\* as immutables: the code of the source and, after it, the four arguments in
\* the order they were given.
SourceCode == <<96, 128, 96, 64>>

Bytecode(args) == SourceCode \o args[1] \o args[2] \o args[3] \o args[4]

\* The code at contract_address: the source deployed with the contract's values
\* as netuid, trustee, min_collateral_increase, decision_timeout; the same with
\* the last two exchanged; the code of another source.
DeployedKinds == {"source", "exchanged", "other"}

DeployedCode(cfg, kind) ==
    CASE kind = "source" ->
            Bytecode(<<cfg.netuid, cfg.trustee, cfg.min_collateral_increase, cfg.decision_timeout>>)
      [] kind = "exchanged" ->
            Bytecode(<<cfg.netuid, cfg.trustee, cfg.decision_timeout, cfg.min_collateral_increase>>)
      [] kind = "other" -> <<96, 128, 0>>

\* get_deployed_bytecode: w3.eth.get_code(address).hex()
get_deployed_bytecode(code, node_ok) ==
    IF ~node_ok THEN Raised("ConnectionError", <<"get_code failed">>)
    ELSE Returned(ToHex(code))

\* How anvil and forge behave.
AnvilKinds == {"starts", "missing", "dies"}

ForgeKinds == {"deploys", "fails", "no address"}

\* A deploy that cleans up only when the try block ends without an exception.
FinallyOnSuccess(outcome, did) ==
    IF outcome.raised THEN Run(outcome, did, NotCalled, <<>>)
    ELSE Run(outcome, did \o <<"terminate", "wait">>, NotCalled, <<>>)

\* Lines 68-71: the finally clause, on the way out of the try block whether it
\* returns or raises: anvil_process.terminate(), anvil_process.wait().
Finally(outcome, did) == Run(outcome, did \o <<"terminate", "wait">>, NotCalled, <<>>)

\* Lines 35-66: the try block.  forge create with the constructor arguments
\* netuid, trustee, min_collateral_increase, decision_timeout; check=True raises
\* CalledProcessError; the address is cut out of the output; the devnet's code
\* is fetched.
DevnetTry(e, config, did) ==
    IF e.anvil = "dies" \/ e.forge = "fails"
    THEN Finally(Raised("CalledProcessError", <<"forge create">>), did \o <<"sleep", "forge create">>)
    ELSE IF e.forge = "no address"
    THEN Finally(Raised("IndexError", <<"list index out of range">>),
                 did \o <<"sleep", "forge create", "parse">>)
    ELSE Finally(get_deployed_bytecode(Bytecode(<<config[1], config[2], config[4], config[3]>>),
                                       e.devnet_ok),
                 did \o <<"sleep", "forge create", "parse", "get_code">>)

\* Lines 29-33: subprocess.Popen(["anvil", ...]); without the program there is
\* FileNotFoundError and no process.
DevnetSpawn(e, config, did) ==
    IF e.anvil = "missing"
    THEN Run(Raised("FileNotFoundError", <<"anvil">>), Append(did, "spawn failed"), NotCalled, <<>>)
    ELSE DevnetTry(e, config, Append(did, "spawn"))

\* deploy_on_devnet_and_get_bytecode: netuid, trustee, decision_timeout,
\* min_collateral_increase = get_contract_config(...), then anvil.
DevnetConfigured(e, config) ==
    IF config.raised THEN Run(config, <<"config failed">>, NotCalled, <<>>)
    ELSE DevnetSpawn(e, config.val, <<"config">>)

deploy_on_devnet_and_get_bytecode(e) == DevnetConfigured(e, get_contract_config(e.cfg, e.config_ok))

\* Lines 95-97: except Exception prints and returns False; SystemExit is no
\* Exception and leaves the function.
VerifyHandled(out) ==
    IF out.ret.raised /\ out.ret.exc # "SystemExit"
    THEN Run(Returned(FALSE), Append(out.steps, "except Exception"), NotCalled, <<>>)
    ELSE out

\* Lines 76-93: the try block of verify_contract, with the comparison at its end.
VerifyTry(e, deployed) ==
    IF get_web3_connection(0, e.rpc_ok).raised
    THEN Run(get_web3_connection(0, e.rpc_ok), <<"connect failed">>, NotCalled, <<>>)
    ELSE IF deployed.raised THEN Run(deployed, <<"connect">>, NotCalled, <<>>)
    ELSE LET source == deploy_on_devnet_and_get_bytecode(e)
         IN  IF source.ret.raised
             THEN Run(source.ret, <<"connect", "get_code">> \o source.steps, NotCalled, <<>>)
             ELSE Run(Returned(deployed.val = source.ret.val),
                      <<"connect", "get_code">> \o source.steps \o <<"compare">>, NotCalled, <<>>)

\* verify_contract
verify_contract(e) ==
    VerifyHandled(VerifyTry(e, get_deployed_bytecode(DeployedCode(e.cfg, e.deployed), e.node_ok)))

\* The contract, the node and the tools verify_contract meets.
VerifyEnvs ==
    [rpc_ok : BOOLEAN, node_ok : BOOLEAN, config_ok : BOOLEAN, anvil : AnvilKinds,
     forge : ForgeKinds, devnet_ok : BOOLEAN, cfg : Configs, deployed : DeployedKinds]
(* ------------------------------------------------------------------ *)
(* The state: one call per run (each script is a process of its own),  *)
(* its input and its outcome                                           *)
(* ------------------------------------------------------------------ *)

VARIABLES
    op,      \* the operation called last
    gen,     \* how its input was made
    arg,     \* its input text (or key index, for ss58_encode)
    fmt,     \* its ss58_format / valid_ss58_format argument, NoFormat when absent
    ret,     \* its outcome
    steps,   \* what a script did, in order
    local,   \* the script's h160_address
    env,     \* the command line and the surroundings of a script run
    keyfile, \* the H160 keyfile after the run
    stdout,  \* the lines printed on standard output
    threads  \* the calls concurrent threads are in

vars == <<op, gen, arg, fmt, ret, steps, local, env, keyfile, stdout, threads>>

Init ==
    /\ op = "init"
    /\ gen = NoGen
    /\ arg = <<>>
    /\ fmt = NoFormat
    /\ ret = NotCalled
    /\ steps = <<>>
    /\ local = NotCalled
    /\ env = NoEnv
    /\ keyfile = NoFile
    /\ stdout = <<>>
    /\ threads = [t \in Threads |-> IdleThread]

CallSs58ToPubkey ==
    \E g \in Gens :
        /\ op = "init"
        /\ op' = "ss58_to_pubkey"
        /\ gen' = g
        /\ arg' = Build(g)
        /\ fmt' = NoFormat
        /\ ret' = ss58_to_pubkey(arg')
        /\ steps' = <<>>
        /\ local' = NotCalled
        /\ UNCHANGED <<env, keyfile, stdout, threads>>

CallSs58ToH160 ==
    \E g \in Gens :
        /\ op = "init"
        /\ op' = "ss58_to_h160"
        /\ gen' = g
        /\ arg' = Build(g)
        /\ fmt' = NoFormat
        /\ LET keypair == Keypair(arg')
           IN  ret' = H160OrNone(keypair) /\ stdout' = H160Printed(keypair)
        /\ steps' = <<>>
        /\ local' = NotCalled
        /\ UNCHANGED <<env, keyfile, threads>>

\* ss58_encode on a public key (the spec's public_key_to_ss58).
CallSs58Encode ==
    \E k \in 1..NumKeys, f \in FormatSet :
        /\ op = "init"
        /\ op' = "ss58_encode"
        /\ gen' = Gen("pubkey", k, f, 0, 0)
        /\ arg' = Keys[k]
        /\ fmt' = f
        /\ ret' = ss58_encode(Keys[k], f)
        /\ steps' = <<>>
        /\ local' = NotCalled
        /\ UNCHANGED <<env, keyfile, stdout, threads>>

\* ss58_decode on an encoded key, with and without an expected format.
CallSs58Decode ==
    \E g \in {x \in Gens : x.kind \in {"valid", "untagged"}}, v \in FormatSet \cup {NoFormat} :
        /\ op = "init"
        /\ op' = "ss58_decode"
        /\ gen' = g
        /\ arg' = Build(g)
        /\ fmt' = v
        /\ ret' = ss58_decode(arg', v)
        /\ steps' = <<>>
        /\ local' = NotCalled
        /\ UNCHANGED <<env, keyfile, stdout, threads>>

\* h160_to_ss58 with a format, or without one (the default).
CallH160ToSs58 ==
    \E h \in 1..Len(H160Texts), f \in FormatSet \cup {NoFormat} :
        /\ op = "init"
        /\ op' = "h160_to_ss58"
        /\ gen' = Gen("h160", h, f, 0, 0)
        /\ arg' = H160Texts[h]
        /\ fmt' = f
        /\ ret' = h160_to_ss58(H160Texts[h], IF f = NoFormat THEN DefaultSs58Format ELSE f)
        /\ steps' = <<>>
        /\ local' = NotCalled
        /\ UNCHANGED <<env, keyfile, stdout, threads>>

\* A run of send_eth_to_ss58.py.
RunSendEth ==
    \E g \in {x \in Gens : x.key = 1 /\ x.fmt \in {0, DefaultSs58Format}
                                     /\ x.kind \in {"valid", "tamper", "badchar", "empty"}},
       argc_ok \in BOOLEAN, amount_ok \in BOOLEAN, rpc_ok \in BOOLEAN, key_ok \in BOOLEAN :
        /\ op = "init"
        /\ op' = "send_eth_to_ss58"
        /\ gen' = g
        /\ arg' = Build(g)
        /\ fmt' = NoFormat
        /\ LET out == send_eth_main(arg', argc_ok, amount_ok, rpc_ok, key_ok)
           IN  ret' = out[1] /\ steps' = out[2] /\ local' = out[3]
        /\ stdout' = IF argc_ok /\ amount_ok THEN H160Printed(Keypair(arg')) ELSE <<>>
        /\ UNCHANGED <<env, keyfile, threads>>

\* base58.b58encode on a byte string.
CallB58Encode ==
    \E b \in ByteSeqs :
        /\ op = "init"
        /\ op' = "b58encode"
        /\ gen' = Gen("bytes", 0, 0, Len(b), 0)
        /\ arg' = b
        /\ fmt' = NoFormat
        /\ ret' = Returned(b58encode(b))
        /\ steps' = <<>>
        /\ local' = NotCalled
        /\ UNCHANGED <<env, keyfile, stdout, threads>>

\* base58.b58decode on a text.
CallB58Decode ==
    \E s \in Base58Texts :
        /\ op = "init"
        /\ op' = "b58decode"
        /\ gen' = Gen("text", 0, 0, Len(s), 0)
        /\ arg' = s
        /\ fmt' = NoFormat
        /\ ret' = b58decode(s)
        /\ steps' = <<>>
        /\ local' = NotCalled
        /\ UNCHANGED <<env, keyfile, stdout, threads>>

\* A run of h160_to_ss58.py.
RunH160ToSs58 ==
    \E h \in 1..Len(H160Texts) :
        /\ op = "init"
        /\ op' = "h160_to_ss58.py"
        /\ gen' = Gen("h160", h, NoFormat, 0, 0)
        /\ arg' = H160Texts[h]
        /\ fmt' = NoFormat
        /\ LET out == h160_to_ss58_main(H160Texts[h])
           IN  /\ ret' = out.ret
               /\ steps' = out.steps
               /\ local' = out.local
               /\ stdout' = IF out.local.raised THEN <<>> ELSE <<out.local.val>>
        /\ UNCHANGED <<env, keyfile, threads>>

\* A run of generate_keypair.py.
RunGenerateKeypair ==
    \E e \in [argc_ok : BOOLEAN, file : {NoFile, OldKeyfile}] :
        /\ op = "init"
        /\ op' = "generate_keypair.py"
        /\ env' = e
        /\ LET out == generate_keypair_main(e)
           IN  ret' = out.ret /\ steps' = out.steps /\ local' = out.local /\ keyfile' = out.file
        /\ UNCHANGED <<gen, arg, fmt, stdout, threads>>

\* A run of setup_evm.py.
RunSetupEvm ==
    \E e \in SetupEnvs :
        /\ op = "init"
        /\ op' = "setup_evm.py"
        /\ env' = e
        /\ LET out == setup_evm_main(e)
           IN  ret' = out.ret /\ steps' = out.steps /\ local' = out.local /\ keyfile' = out.file
        /\ UNCHANGED <<gen, arg, fmt, stdout, threads>>

\* A call of deposit_collateral.
CallDepositCollateral ==
    \E e \in {x \in DepositEnvs : x.args_ok /\ x.rpc_ok} :
        /\ op = "init"
        /\ op' = "deposit_collateral"
        /\ env' = e
        /\ LET out == deposit_collateral(e)
           IN  ret' = out.ret /\ steps' = out.steps /\ local' = out.local
        /\ UNCHANGED <<gen, arg, fmt, keyfile, stdout, threads>>

\* A run of deposit_collateral.py.
RunDepositCollateral ==
    \E e \in {x \in DepositEnvs : x.contract_valid /\ x.trustee_valid /\ x.abi_found
                                    /\ x.receipt_ok /\ x.send_ok /\ x.amount_wei = MaxWei} :
        /\ op = "init"
        /\ op' = "deposit_collateral.py"
        /\ env' = e
        /\ LET out == deposit_collateral_main(e)
           IN  ret' = out.ret /\ steps' = out.steps /\ local' = out.local
        /\ UNCHANGED <<gen, arg, fmt, keyfile, stdout, threads>>

\* A call of deny_reclaim_request.
CallDenyReclaimRequest ==
    \E e \in {x \in TxEnvs : x.rpc_ok} :
        /\ op = "init"
        /\ op' = "deny_reclaim_request"
        /\ env' = e
        /\ LET out == deny_reclaim_request(e)
           IN  ret' = out.ret /\ steps' = out.steps /\ local' = out.local
        /\ UNCHANGED <<gen, arg, fmt, keyfile, stdout, threads>>

\* A call of slash_collateral.
CallSlashCollateral ==
    \E e \in {x \in TxEnvs : x.rpc_ok /\ x.contract_valid} :
        /\ op = "init"
        /\ op' = "slash_collateral"
        /\ env' = e
        /\ LET out == slash_collateral(e)
           IN  ret' = out.ret /\ steps' = out.steps /\ local' = out.local
        /\ UNCHANGED <<gen, arg, fmt, keyfile, stdout, threads>>

\* A call of finalize_reclaim, which takes no url.
CallFinalizeReclaim ==
    \E e \in {x \in TxEnvs : x.rpc_ok /\ x.url = <<>> /\ x.fetched.raised} :
        /\ op = "init"
        /\ op' = "finalize_reclaim"
        /\ env' = e
        /\ LET out == finalize_reclaim(e)
           IN  ret' = out.ret /\ steps' = out.steps /\ local' = out.local
        /\ UNCHANGED <<gen, arg, fmt, keyfile, stdout, threads>>

\* A run of finalize_reclaim.py.
RunFinalizeReclaim ==
    \E e \in {x \in TxEnvs : x.url = <<>> /\ x.fetched.raised} :
        /\ op = "init"
        /\ op' = "finalize_reclaim.py"
        /\ env' = e
        /\ LET out == finalize_reclaim_main(e)
           IN  ret' = out.ret /\ steps' = out.steps /\ local' = out.local
        /\ UNCHANGED <<gen, arg, fmt, keyfile, stdout, threads>>

\* A run of reclaim_collateral.py.
RunReclaimCollateral ==
    \E e \in TxEnvs :
        /\ op = "init"
        /\ op' = "reclaim_collateral.py"
        /\ env' = e
        /\ LET out == reclaim_collateral_main(e)
           IN  ret' = out.ret /\ steps' = out.steps /\ local' = out.local
        /\ UNCHANGED <<gen, arg, fmt, keyfile, stdout, threads>>

\* A call of deploy_on_devnet_and_get_bytecode.
CallDeployOnDevnet ==
    \E e \in {x \in VerifyEnvs : x.rpc_ok /\ x.node_ok /\ x.deployed = "source"} :
        /\ op = "init"
        /\ op' = "deploy_on_devnet_and_get_bytecode"
        /\ env' = e
        /\ LET out == deploy_on_devnet_and_get_bytecode(e)
           IN  ret' = out.ret /\ steps' = out.steps /\ local' = out.local
        /\ UNCHANGED <<gen, arg, fmt, keyfile, stdout, threads>>

\* A call of verify_contract.
CallVerifyContract ==
    \E e \in VerifyEnvs :
        /\ op = "init"
        /\ op' = "verify_contract"
        /\ env' = e
        /\ LET out == verify_contract(e)
           IN  ret' = out.ret /\ steps' = out.steps /\ local' = out.local
        /\ UNCHANGED <<gen, arg, fmt, keyfile, stdout, threads>>

Next ==
    \/ CallB58Encode
    \/ CallB58Decode
    \/ CallSs58ToPubkey
    \/ CallSs58ToH160
    \/ CallSs58Encode
    \/ CallSs58Decode
    \/ CallH160ToSs58
    \/ RunSendEth
    \/ RunH160ToSs58
    \/ RunGenerateKeypair
    \/ RunSetupEvm
    \/ CallDepositCollateral
    \/ RunDepositCollateral
    \/ CallDenyReclaimRequest
    \/ CallSlashCollateral
    \/ CallFinalizeReclaim
    \/ RunFinalizeReclaim
    \/ RunReclaimCollateral
    \/ CallDeployOnDevnet
    \/ CallVerifyContract

Spec == Init /\ [][Next]_vars

(* ------------------------------------------------------------------ *)
(* Threads calling the conversion functions at the same time           *)
(* ------------------------------------------------------------------ *)

\* Thread t enters a call and works in its own frame, up to the point where it
\* prints or returns.
ThreadCall(t) ==
    \E j \in 1..Len(Jobs) :
        /\ threads[t].pc = "idle"
        /\ threads' = [threads EXCEPT ![t] = [pc |-> "running", job |-> Jobs[j],
                                               frame |-> JobFrame(Jobs[j]), ret |-> NotCalled]]
        /\ UNCHANGED <<op, gen, arg, fmt, ret, steps, local, env, keyfile, stdout>>

\* The except clause of ss58_to_h160 prints on the standard output all threads
\* share.
ThreadPrint(t) ==
    /\ threads[t].pc = "running"
    /\ threads[t].job.fn = "ss58_to_h160"
    /\ threads[t].frame.raised
    /\ stdout' = stdout \o H160Printed(threads[t].frame)
    /\ threads' = [threads EXCEPT ![t].pc = "printed"]
    /\ UNCHANGED <<op, gen, arg, fmt, ret, steps, local, env, keyfile>>

\* The call returns or raises.
ThreadReturn(t) ==
    /\ \/ threads[t].pc = "printed"
       \/ /\ threads[t].pc = "running"
          /\ ~(threads[t].job.fn = "ss58_to_h160" /\ threads[t].frame.raised)
    /\ threads' = [threads EXCEPT ![t].pc = "done",
                                  ![t].ret = JobReturn(threads[t].job, threads[t].frame)]
    /\ UNCHANGED <<op, gen, arg, fmt, ret, steps, local, env, keyfile, stdout>>

NextThreads == \E t \in Threads : ThreadCall(t) \/ ThreadPrint(t) \/ ThreadReturn(t)

SpecThreads == Init /\ [][NextThreads]_vars

(* ------------------------------------------------------------------ *)
(* Properties                                                          *)
(* ------------------------------------------------------------------ *)

ConversionOps == {"ss58_to_pubkey", "ss58_to_h160"}

PubkeyError == "Error converting SS58 address to public key: "

\* The decoded bytes of the text a "tamper" Gen describes: prefix, key and
\* checksum, with one bit of the byte g.pos places before the last one flipped.
TamperedRaw(g) ==
    LET body == ss58_format_bytes(g.fmt) \o Keys[g.key]
        raw  == body \o Slice(blake2b(checksum_prefix \o body, 64), 1, 2)
    IN  [raw EXCEPT ![Len(raw) - g.pos] = FlipBit(raw[Len(raw) - g.pos], g.alt)]

\* raw's last two bytes differ from the checksum of what precedes them.
ChecksumBroken(raw) ==
    Slice(raw, Len(raw) - 1, Len(raw))
        # Slice(blake2b(checksum_prefix \o Slice(raw, 1, Len(raw) - 2), 64), 1, 2)

\* The last element of a message.
Cause(r) == r.msg[Len(r.msg)]

\* C1: ss58_to_pubkey applied to the SS58 encoding of a 32-byte key k under a
\* format the encoder accepts returns exactly k.
C1_KeyRoundTrip ==
    (op = "ss58_to_pubkey" /\ gen.kind = "valid") => ret = Returned(Keys[gen.key])

C1_Witness ==
    /\ op = "ss58_to_pubkey"
    /\ gen.kind = "valid"
    /\ gen.fmt > MaxOneByteFormat
    /\ gen.key = 3
    /\ ret = Returned(Keys[3])

\* C2: a valid SS58 text with a bit of a checksum byte or of a payload byte
\* changed, so that the stored checksum differs from the recomputed one, is
\* refused with "Invalid checksum" by ss58_decode and by ss58_to_pubkey, which
\* returns no payload for it.
C2_ChecksumRejection ==
    (op = "ss58_to_pubkey" /\ gen.kind = "tamper" /\ ChecksumBroken(TamperedRaw(gen)))
        => /\ ret = Raised("ValueError", <<PubkeyError, "Invalid checksum">>)
           /\ ss58_decode(arg, NoFormat) = Raised("ValueError", <<"Invalid checksum">>)

C2_Witness ==
    /\ op = "ss58_to_pubkey"
    /\ gen.kind = "tamper"
    /\ gen.pos >= 2
    /\ ChecksumBroken(TamperedRaw(gen))
    /\ ret.raised
    /\ Cause(ret) = "Invalid checksum"

\* C3: for an invalid SS58 text (a character outside the alphabet, the empty
\* text, a changed checksum byte) ss58_to_pubkey and ss58_to_h160 raise, and
\* send_eth_to_ss58 never holds None as its h160_address.
C3_FailureReported ==
    /\ (op \in ConversionOps
          /\ (gen.kind \in {"badchar", "empty"} \/ (gen.kind = "tamper" /\ gen.pos <= 1)))
        => ret.raised
    /\ op = "send_eth_to_ss58" => ~local.none

\* C4: ss58_to_h160 of a valid address is 0x and the hex of the last 20 bytes of
\* its key; addresses whose keys agree on the last 20 bytes give the same H160;
\* 32 zero bytes under format 42 give the all-zero H160.
C4_LastTwentyBytes ==
    (op = "ss58_to_h160" /\ gen.kind = "valid") =>
        /\ ret = Returned(<<"0", "x">> \o ToHex(SubSeq(Keys[gen.key], 13, 32)))
        /\ \A k \in 1..NumKeys, f \in EncodableFormats :
               SubSeq(Keys[k], 13, 32) = SubSeq(Keys[gen.key], 13, 32)
                   => ss58_to_h160(ss58_encode(Keys[k], f).val) = ret
        /\ (gen.key = 1 /\ gen.fmt = 42) => ret.val = <<"0", "x">> \o Repeat("0", 40)

C4_Witness ==
    /\ op = "ss58_to_h160"
    /\ gen.kind = "valid"
    /\ gen.key = 2
    /\ Keys[2] # Keys[1]
    /\ ret = Returned(<<"0", "x">> \o Repeat("0", 40))

\* The 20 bytes the first four H160 texts stand for.
H160Bytes ==
    << Repeat(0, 20),
       <<82,144,132,0,9,133,39,136,110,15,112,48,6,152,87,210,228,22,158,231>>,
       <<82,144,132,0,9,133,39,136,110,15,112,48,6,152,87,210,228,22,158,231>>,
       <<82,144,132,0,9,133,39,136,110,15,112,48,6,152,87,210,228,22,158,231>> >>

\* The format a call of h160_to_ss58 encodes under.
UsedFormat == IF fmt = NoFormat THEN 42 ELSE fmt

\* C5: for 40 hex digits with or without 0x, h160_to_ss58 is the SS58 encoding,
\* under the given format, of the 32-byte blake2b of b'evm:' ++ the 20 bytes:
\* ss58_to_pubkey gives that digest back and the text carries that format and
\* no other.
C5_EvmDerivation ==
    (op = "h160_to_ss58" /\ gen.key <= Len(H160Bytes) /\ UsedFormat \notin ReservedFormats) =>
        /\ ret = ss58_encode(blake2b(EvmTag \o H160Bytes[gen.key], 32), UsedFormat)
        /\ ~ret.raised
        /\ ss58_to_pubkey(ret.val) = Returned(blake2b(EvmTag \o H160Bytes[gen.key], 32))
        /\ \A q \in FormatSet : ss58_decode(ret.val, q).raised <=> q # UsedFormat

C5_Witness ==
    /\ op = "h160_to_ss58"
    /\ gen.key = 4
    /\ fmt > MaxOneByteFormat
    /\ IsValue(ret)
    /\ ss58_to_pubkey(ret.val) = Returned(blake2b(EvmTag \o H160Bytes[4], 32))

\* What is left of s after one leading 0x is dropped.
StripOne0x(s) == IF StartsWith(s, <<"0", "x">>) THEN Slice(s, 3, Len(s)) ELSE s

\* C6: h160_to_ss58 raises on every text that, one leading 0x dropped, is not
\* exactly 40 hex characters.
C6_RequiresFortyHex ==
    (op = "h160_to_ss58"
       /\ ~(Len(StripOne0x(arg)) = 40 /\ \A i \in 1..40 : StripOne0x(arg)[i] \in HexChars))
        => ret.raised

\* C7: a character outside the base58 alphabet and a changed last byte are
\* reported to the caller of ss58_to_pubkey and of ss58_to_h160 as two
\* different failures: each call raises, the one naming the invalid character,
\* the other the invalid checksum.
C7_DistinguishableFailures ==
    op \in ConversionOps =>
        /\ gen.kind = "badchar" =>
               (ret.raised /\ \E i \in 1..Len(ret.msg) : ret.msg[i] = "Invalid character")
        /\ (gen.kind = "tamper" /\ gen.pos = 0) =>
               (ret.raised /\ \E i \in 1..Len(ret.msg) : ret.msg[i] = "Invalid checksum")

\* C8 as the specification states it: every format from 0 on, the one-byte
\* ones 0..63 among them, encodes and decodes back to the key under that format.
C8_EveryPrefixRoundTrips ==
    (op = "ss58_encode" /\ fmt >= 0 /\ fmt <= MaxSs58Format) =>
        /\ ~ret.raised
        /\ ss58_decode(ret.val, fmt) = Returned(ToHex(arg))

\* C8: for every format in 0..16383 but the reserved 46 and 47 and every
\* 32-byte key, ss58_encode succeeds and ss58_decode of its result gives the key
\* back, accepts that format as the expected one and refuses every other with
\* "Invalid SS58 format"; ss58_encode refuses 46 and 47.
C8_RoundTrip ==
    /\ (op = "ss58_encode" /\ fmt \notin ReservedFormats) =>
           /\ ~ret.raised
           /\ ss58_decode(ret.val, NoFormat) = Returned(ToHex(arg))
    /\ (op = "ss58_encode" /\ fmt \in ReservedFormats) =>
           ret = Raised("ValueError", <<"Invalid value for ss58_format">>)
    /\ (op = "ss58_decode" /\ gen.kind = "valid") =>
           ret = IF fmt \in {NoFormat, gen.fmt}
                 THEN Returned(ToHex(Keys[gen.key]))
                 ELSE Raised("ValueError", <<"Invalid SS58 format">>)

C8_Witness ==
    /\ op = "ss58_decode"
    /\ gen.kind = "valid"
    /\ gen.fmt > MaxOneByteFormat
    /\ fmt = gen.fmt
    /\ ret = Returned(ToHex(Keys[gen.key]))

\* The first two bytes of the hash of prefix ++ key, with the tag and without.
TaggedChecksum(g) ==
    Slice(blake2b(checksum_prefix \o ss58_format_bytes(g.fmt) \o Keys[g.key], 64), 1, 2)

UntaggedChecksum(g) ==
    Slice(blake2b(ss58_format_bytes(g.fmt) \o Keys[g.key], 64), 1, 2)

\* C9 as the specification states it: a text whose checksum is taken from the
\* hash without the tag is never accepted.
C9_UntaggedNeverAccepted ==
    (op \in {"ss58_decode", "ss58_to_pubkey"} /\ gen.kind = "untagged") => ret.raised

\* C9: a text whose checksum is taken from the hash without the tag is refused
\* with "Invalid checksum" whenever those two bytes differ from the tagged
\* checksum; when the two coincide the text is the valid encoding and is
\* accepted.
C9_DomainSeparation ==
    (op \in {"ss58_decode", "ss58_to_pubkey"} /\ gen.kind = "untagged"
        /\ fmt \in {NoFormat, gen.fmt}) =>
        IF TaggedChecksum(gen) # UntaggedChecksum(gen)
        THEN ret.raised /\ Cause(ret) = "Invalid checksum"
        ELSE ret = Returned(IF op = "ss58_decode" THEN ToHex(Keys[gen.key]) ELSE Keys[gen.key])

C9_Witness ==
    /\ op = "ss58_decode"
    /\ gen.kind = "untagged"
    /\ fmt = gen.fmt
    /\ TaggedChecksum(gen) # UntaggedChecksum(gen)
    /\ ret = Raised("ValueError", <<"Invalid checksum">>)

\* ss58_decode accepts the text and its payload is not 32 bytes long.
OtherLengthPayload(decoded) == ~decoded.raised /\ Len(decoded.val) # 2 * PublicKeyLen

FullLength(g) == Len(ss58_format_bytes(g.fmt)) + PublicKeyLen + 2

\* C11: a base58-valid text whose decoded bytes are fewer than prefix + 32-byte
\* payload + 2-byte checksum is refused for its length: ss58_decode and
\* ss58_to_pubkey raise, never with "Invalid checksum", and ss58_decode gives no
\* payload.
C11_TruncatedRejected ==
    (op = "ss58_to_pubkey" /\ gen.kind \in {"truncated", "length", "nopayload"}
        /\ Len(b58decode(arg).val) < FullLength(gen)) =>
        /\ ret.raised
        /\ Cause(ret) # "Invalid checksum"
        /\ ss58_decode(arg, NoFormat).raised
        /\ Cause(ss58_decode(arg, NoFormat)) = "Invalid address length"

(* ------------------------------------------------------------------ *)
(* Base58                                                              *)
(* ------------------------------------------------------------------ *)

AllZero(b) == \A i \in 1..Len(b) : b[i] = 0

\* C12: decoding the Base58 encoding of a byte sequence gives the byte sequence
\* back, the empty sequence and sequences of zero bytes included.
C12_Base58RoundTrip ==
    op = "b58encode" => b58decode(ret.val) = Returned(arg)

\* A run of eight zero bytes was encoded and decodes to itself.
C12_Witness ==
    /\ op = "b58encode"
    /\ Len(arg) = 8
    /\ AllZero(arg)
    /\ b58decode(ret.val) = Returned(arg)

\* C13: n zero bytes encode to n characters "1"; every leading zero byte of the
\* input is one leading "1" of the encoding, and every leading "1" of a text that
\* decodes is one leading zero byte of the result.
C13_LeadingZeros ==
    /\ op = "b58encode" =>
          /\ LeadingCount(ret.val, "1") = LeadingCount(arg, 0)
          /\ AllZero(arg) => ret.val = Repeat("1", Len(arg))
    /\ (op = "b58decode" /\ ~ret.raised) =>
          LeadingCount(ret.val, 0) = LeadingCount(arg, "1")

\* Two zero bytes before a non-zero one were encoded with two leading "1".
C13_Witness ==
    /\ op = "b58encode"
    /\ Len(arg) = 3
    /\ LeadingCount(arg, 0) = 2
    /\ LeadingCount(ret.val, "1") = 2
    /\ Len(ret.val) > 2

(* ------------------------------------------------------------------ *)
(* Concurrent calls                                                    *)
(* ------------------------------------------------------------------ *)

Done(t) == threads[t].pc = "done"

JobAddress(t) == StripOne0x(H160Texts[threads[t].job.gen.key])

\* C14: two calls of h160_to_ss58 with the same 40 hex characters, with or
\* without 0x, and the same format return the same SS58 text, however the calls
\* of the threads are interleaved.
C14_Deterministic ==
    \A t, u \in Threads :
        (/\ Done(t) /\ Done(u)
         /\ threads[t].job.fn = "h160_to_ss58" /\ threads[u].job.fn = "h160_to_ss58"
         /\ JobAddress(t) = JobAddress(u)
         /\ threads[t].job.gen.fmt = threads[u].job.gen.fmt) =>
            /\ IsValue(threads[t].ret)
            /\ threads[t].ret = threads[u].ret

\* One thread converted the address with 0x and another without, and both got
\* the same text.
C14_Witness ==
    \E t, u \in Threads :
        /\ Done(t) /\ Done(u)
        /\ threads[t].job = Jobs[1] /\ threads[u].job = Jobs[2]
        /\ IsValue(threads[t].ret)
        /\ threads[t].ret = threads[u].ret

\* C15: whatever the interleaving, every call gives the result it gives when run
\* alone, and nothing but the results is left behind: nothing was written to the
\* standard output the threads share.
C15_NoEffectBesidesResult ==
    /\ \A t \in Threads :
          Done(t) => threads[t].ret = JobReturn(threads[t].job, JobFrame(threads[t].job))
    /\ stdout = <<>>

(* ------------------------------------------------------------------ *)
(* The format of the addresses made and the shape of the H160 text     *)
(* ------------------------------------------------------------------ *)

\* r is an SS58 text that decodes under the format f.
CarriesFormat(r, f) == IsValue(r) /\ ~ss58_decode(r.val, f).raised

\* C16: without a format h160_to_ss58 encodes under 42, with one under that one
\* and not under 42; the addresses h160_to_ss58.py prints and setup_evm.py
\* transfers to are encoded under 42.
C16_DefaultPrefix ==
    /\ (op = "h160_to_ss58" /\ ~ret.raised) =>
          /\ CarriesFormat(ret, IF fmt = NoFormat THEN 42 ELSE fmt)
          /\ fmt \notin {NoFormat, 42} => ~CarriesFormat(ret, 42)
    /\ (op \in {"h160_to_ss58.py", "setup_evm.py"} /\ local # NotCalled /\ ~local.raised) =>
          CarriesFormat(local, 42)

\* h160_to_ss58 was called without a format and its text decodes under 42.
C16_Witness ==
    /\ op = "h160_to_ss58"
    /\ fmt = NoFormat
    /\ CarriesFormat(ret, 42)

LowerHexChars == {HexLower[i] : i \in 1..16}

\* C17: whatever ss58_to_h160 returns other than None is 0x followed by exactly
\* 40 lower-case hex characters.
C17_H160Shape ==
    (op = "ss58_to_h160" /\ IsValue(ret)) =>
        /\ Len(ret.val) = 2 + 2 * H160Len
        /\ SubSeq(ret.val, 1, 2) = <<"0", "x">>
        /\ \A i \in 3..Len(ret.val) : ret.val[i] \in LowerHexChars

\* ss58_to_h160 accepted an address followed by white space and returned 42
\* characters.
C17_Witness ==
    /\ op = "ss58_to_h160"
    /\ gen.kind = "trailing"
    /\ IsValue(ret)
    /\ Len(ret.val) = 42

(* ------------------------------------------------------------------ *)
(* setup_evm.py                                                        *)
(* ------------------------------------------------------------------ *)

Did(name) == \E i \in 1..Len(steps) : steps[i] = name

\* The place of a step in the order of the chain work; 0 for what comes before.
Stage(name) ==
    CASE name \in {"associate", "associate failed"}              -> 1
      [] name \in {"transfer", "transfer failed", "print top up"} -> 2
      [] name \in {"deploy", "deploy failed"}                     -> 3
      [] name \in {"verify", "verify failed"}                     -> 4
      [] name \in {"commit", "commit failed"}                     -> 5
      [] OTHER                                                    -> 0

\* Some step of stage n or later was begun.
Began(n) == \E i \in 1..Len(steps) : Stage(steps[i]) >= n

\* C18: setup_evm.py run without --overwrite and without --reuse on an existing
\* keyfile exits with status 1, leaves the file as it was and begins no chain
\* step; run with --reuse it generates nothing and leaves the file as it was; the
\* file is never replaced without --overwrite.
C18_NoOverwrite ==
    op = "setup_evm.py" =>
        /\ (~env.overwrite /\ ~env.reuse /\ env.file.exists) =>
              /\ ExitStatus(ret) = "1"
              /\ keyfile = env.file
              /\ ~Began(1)
        /\ env.reuse => (keyfile = env.file /\ ~Did("generate"))
        /\ (env.file.exists /\ keyfile # env.file) => env.overwrite

\* A run with neither flag on an existing keyfile has ended with status 1 and
\* the file is the old one.
C18_Witness ==
    /\ op = "setup_evm.py"
    /\ ~env.overwrite /\ ~env.reuse
    /\ env.file = OldKeyfile
    /\ ExitStatus(ret) = "1"
    /\ keyfile = OldKeyfile

\* C20: the chain steps of setup_evm.py come in the order associate, transfer,
\* deploy, verify, commit; the transfer is made only for a positive amount, the
\* deploy only with --deploy, the verification only with --verify; nothing
\* follows a failed association, transfer or deploy; the commitment is made only
\* after a deploy that succeeded, and a failed verification does not stop it.
C20_StepOrder ==
    op = "setup_evm.py" =>
        /\ \A i, j \in 1..Len(steps) : i < j => Stage(steps[i]) < Stage(steps[j])
        /\ Began(2) => Did("associate")
        /\ (Did("transfer") \/ Did("transfer failed")) => env.amount_positive
        /\ Began(3) => (env.deploy /\ ~Did("transfer failed"))
        /\ Did("associate failed") => ~Began(2)
        /\ Did("transfer failed") => ~Began(3)
        /\ Did("deploy failed") => ~Began(4)
        /\ (Did("verify") \/ Did("verify failed")) => (env.verify /\ Did("deploy"))
        /\ Began(5) => (Did("deploy") /\ env.fails # "deploy output")
        /\ Did("verify failed") => Began(5)
        /\ (Did("deploy") /\ env.fails \notin {"deploy output", "commit"}) => Did("commit")

\* The verification failed and the commitment was published all the same.
C20_Witness ==
    /\ op = "setup_evm.py"
    /\ Did("associate") /\ Did("transfer") /\ Did("deploy")
    /\ Did("verify failed")
    /\ Did("commit")

(* ------------------------------------------------------------------ *)
(* deposit_collateral                                                  *)
(* ------------------------------------------------------------------ *)

\* Where the step `name` is in steps, 0 when it is not there.
Place(name) ==
    IF Did(name) THEN CHOOSE i \in 1..Len(steps) : steps[i] = name ELSE 0

\* The addresses are well formed and the ABI is there: the checks are reached.
ChecksReached == env.contract_valid /\ env.trustee_valid /\ env.abi_found

TrusteeMatches == Lower(env.trustee) = Lower(env.expected)

AmountSuffices == env.amount_wei >= env.min_collateral

\* C19: deposit_collateral sends the deposit once the addresses are validated,
\* the trustee matches whatever the case of its letters and the amount reaches the
\* minimum, in that order; when one of the two checks fails it raises ValueError
\* and builds, signs and sends nothing.
C19_DepositAfterChecks ==
    op = "deposit_collateral" =>
        /\ Did("send") =>
              /\ TrusteeMatches /\ AmountSuffices
              /\ 0 < Place("validate trustee")
              /\ Place("validate trustee") < Place("verify trustee")
              /\ Place("verify trustee") < Place("check minimum")
              /\ Place("check minimum") < Place("send")
        /\ (ChecksReached /\ ~(TrusteeMatches /\ AmountSuffices)) =>
              /\ ret.raised /\ ret.exc = "ValueError"
              /\ ~Did("build") /\ ~Did("sign") /\ ~Did("send")
        /\ (ChecksReached /\ TrusteeMatches /\ AmountSuffices) => Did("send")

(* ------------------------------------------------------------------ *)
(* Receipts, failures and checksums of the transaction scripts         *)
(* ------------------------------------------------------------------ *)

TxFunctions == {"deny_reclaim_request", "finalize_reclaim", "slash_collateral"}

\* The error each function has of its own.
OwnError ==
    [f \in TxFunctions \cup {"deposit_collateral"} |->
        CASE f = "deny_reclaim_request" -> "DenyReclaimRequestError"
          [] f = "finalize_reclaim"     -> "FinalizeReclaimError"
          [] f = "slash_collateral"     -> "SlashCollateralError"
          [] f = "deposit_collateral"   -> "DepositCollateralError"]

\* Nothing before the transaction stops the function, and the node takes the
\* transaction.
TxGoesOut ==
    /\ env.contract_valid /\ env.abi_found /\ env.send_ok
    /\ ~(op # "finalize_reclaim" /\ IsHttpUrl(env.url) /\ env.fetched.raised)

DepositGoesOut == ChecksReached /\ TrusteeMatches /\ AmountSuffices /\ env.send_ok

\* C21: in deny_reclaim_request, finalize_reclaim, slash_collateral and
\* deposit_collateral a transaction mined with status 0 makes the function raise
\* its own error, and the function returns an event and a receipt only for a
\* status other than 0.
C21_FailedReceiptRaises ==
    /\ (op \in TxFunctions /\ TxGoesOut /\ env.receipt.status = 0) =>
          (ret.raised /\ ret.exc = OwnError[op])
    /\ (op = "deposit_collateral" /\ DepositGoesOut /\ ~env.receipt_ok) =>
          (ret.raised /\ ret.exc = OwnError[op])
    /\ (op \in TxFunctions /\ IsValue(ret)) => env.receipt.status # 0
    /\ (op = "deposit_collateral" /\ IsValue(ret)) => env.receipt_ok

\* The finalisation fails: the node refuses the transaction, or it is mined
\* with status 0, or its receipt holds no Reclaimed event.
FinalisationFails ==
    ~env.send_ok \/ env.receipt.status = 0 \/ env.receipt.events = 0

\* C22: whenever the finalisation fails, finalize_reclaim raises
\* FinalizeReclaimError, and the run of finalize_reclaim.py goes through the
\* branch of except FinalizeReclaimError.
C22_FailuresAreFinalizeReclaimError ==
    /\ (op = "finalize_reclaim" /\ env.contract_valid /\ env.abi_found /\ FinalisationFails) =>
          (ret.raised /\ ret.exc = "FinalizeReclaimError")
    /\ (op = "finalize_reclaim.py" /\ env.rpc_ok /\ env.contract_valid /\ env.abi_found
            /\ FinalisationFails) =>
          Did("except FinalizeReclaimError")

\* C23: when the reclaimCollateral transaction is mined with status 0,
\* reclaim_collateral raises instead of returning its dict, and the run of
\* reclaim_collateral.py exits with status 1 without the success message.
C23_FailedReclaimExits ==
    (op = "reclaim_collateral.py" /\ Did("send") /\ env.receipt.status = 0) =>
        /\ Did("except Exception")
        /\ ~Did("print success")
        /\ ExitStatus(ret) = "1"

\* A reclaim was sent, mined with status 0, and the run ended with status 1.
C23_Witness ==
    /\ op = "reclaim_collateral.py"
    /\ Did("send") /\ Did("receipt")
    /\ env.receipt.status = 0
    /\ ExitStatus(ret) = "1"

ChecksumFunctions == {"deny_reclaim_request", "slash_collateral", "reclaim_collateral.py"}

\* The function gets as far as the checksum.
ChecksumReached ==
    /\ env.abi_found
    /\ op # "slash_collateral" => env.contract_valid
    /\ op = "reclaim_collateral.py" => env.rpc_ok

\* C24: in deny_reclaim_request, slash_collateral and reclaim_collateral the
\* checksum given to the contract call is the 16 bytes of the MD5 of the fetched
\* content when the url starts with http:// or https://, and 16 zero bytes when it
\* does not; when the fetch fails the process exits and nothing is built, signed
\* or sent.
C24_ChecksumRule ==
    (op \in ChecksumFunctions /\ ChecksumReached) =>
        /\ (IsHttpUrl(env.url) /\ ~env.fetched.raised) =>
              (local = Returned(md5(env.fetched.val)) /\ Len(local.val) = 16)
        /\ ~IsHttpUrl(env.url) => local = Returned(Repeat(0, 16))
        /\ (IsHttpUrl(env.url) /\ env.fetched.raised) =>
              /\ ret.raised /\ ret.exc = "SystemExit"
              /\ ~Did("build") /\ ~Did("sign") /\ ~Did("send")

\* A reclaim for an https url answered with the byte "a" was sent with the MD5
\* of that byte.
C24_Witness ==
    /\ op = "reclaim_collateral.py"
    /\ Did("send")
    /\ env.url = <<"h","t","t","p","s",":","/","/","a">>
    /\ env.fetched = Returned(<<97>>)
    /\ local = Returned(<<12,193,117,185,192,241,182,168,49,195,153,226,105,119,38,97>>)

(* ------------------------------------------------------------------ *)
(* verify_contract.py                                                  *)
(* ------------------------------------------------------------------ *)

VerifyOps == {"deploy_on_devnet_and_get_bytecode", "verify_contract"}

\* How often the step `name` was made.
Times(name) == Cardinality({i \in 1..Len(steps) : steps[i] = name})

\* C25: once deploy_on_devnet_and_get_bytecode has started anvil, the process is
\* terminated and then waited for, once each and after every other step of the
\* function, whether the function returns the bytecode or raises; without a
\* process nothing is terminated.
C25_AnvilCleanedUp ==
    op \in VerifyOps =>
        /\ Did("spawn") =>
              /\ Times("terminate") = 1 /\ Times("wait") = 1
              /\ Place("spawn") < Place("terminate")
              /\ Place("wait") = Place("terminate") + 1
              /\ \A i \in 1..Len(steps) :
                    steps[i] \in {"sleep", "forge create", "parse"} => i < Place("terminate")
              /\ op = "deploy_on_devnet_and_get_bytecode" => Place("wait") = Len(steps)
        /\ ~Did("spawn") => (~Did("terminate") /\ ~Did("wait"))

\* forge create failed after anvil was started, and anvil was terminated and
\* waited for before the function raised.
C25_Witness ==
    /\ op = "deploy_on_devnet_and_get_bytecode"
    /\ env.forge = "fails"
    /\ ret.raised /\ ret.exc = "CalledProcessError"
    /\ Did("spawn")
    /\ Place("wait") = Len(steps)
    /\ Place("terminate") = Len(steps) - 1

\* The code at contract_address is the code of the source deployed with the
\* contract's own netuid, trustee, min_collateral_increase and decision_timeout,
\* in that order.
SameBytecode ==
    DeployedCode(env.cfg, env.deployed) =
        SourceCode \o env.cfg.netuid \o env.cfg.trustee \o env.cfg.min_collateral_increase
                   \o env.cfg.decision_timeout

\* Every step after the connection succeeds.
StepsSucceed ==
    /\ env.node_ok /\ env.config_ok /\ env.devnet_ok
    /\ env.anvil = "starts" /\ env.forge = "deploys"

====
